---- MODULE Spec2Model ----
(***************************************************************************)
(* Eleanor: the indexing pipeline of backend/indexing.rs, the loudness     *)
(* code of backend/replaygain.rs and the indexer of backend/fetching.rs.   *)
(*                                                                         *)
(* Spec: index_source reads the source's last-indexed timestamp, walks the *)
(* source root, maps index_song over the audio entries on a rayon pool,    *)
(* upserts the collected records into the library table (unique key: hash) *)
(* and then upserts the source's last-indexed timestamp.                   *)
(*                                                                         *)
(* SpecSong: one index_song call from the read of the tags on, packet by   *)
(* packet: FormatReaderIter::new, the loop of process, its result and the  *)
(* record.                                                                 *)
(*                                                                         *)
(* SpecGain: one parse_gain call on a string.                              *)
(*                                                                         *)
(* SpecHash: the checksums of two byte sequences, each from a new hasher.  *)
(*                                                                         *)
(* SpecFetch: one index_source call of backend/fetching.rs in one of the   *)
(* modes Purge, New and Initial, on a local or a remote source.            *)
(***************************************************************************)
EXTENDS Integers, Sequences, FiniteSets, TLC

\* ------------------------------------------------------------------ bounds
\* The clock runs from 1 to MaxTime (seconds since the epoch).
MaxTime == 2
\* How many times the environment modifies a file.
MaxEdits == 1
\* How many index_source calls are made.
MaxRuns == 2
\* How long the strings given to parse_gain are (the strings of the unit
\* tests apart).
MaxGainLen == 4
\* How many bytes are written to a hasher.
MaxBytes == 3

\* ------------------------------------------------------- Option and Result
None == <<>>
Some(v) == <<v>>
IsSome(o) == Len(o) = 1
Unwrap(o) == o[1]

Range(seq) == {seq[i] : i \in 1..Len(seq)}

\* ------------------------------------------------------ the sources (config)
\* config::Source { id, name, path }
SourceIds == {1, 2}
SourcePath(s) == IF s = 1 THEN "/m1" ELSE "/m2"

\* -------------------------------------------------- the directory entries
\* What WalkDir can meet under the two roots: three audio files, one picture
\* and one directory.  root is the source root the entry lies under, path
\* its parent directory.
Entries == {"a", "b", "c", "j", "d"}
AudioEntries == {"a", "b", "c"}
\* The file the environment modifies.
Editable == {"a"}
EntryInfo(e) ==
    CASE e = "a" -> [root |-> "/m1", path |-> "/m1", filename |-> "a.flac", ext |-> "flac", is_dir |-> FALSE]
      [] e = "b" -> [root |-> "/m1", path |-> "/m1/sub", filename |-> "b.flac", ext |-> "flac", is_dir |-> FALSE]
      [] e = "c" -> [root |-> "/m2", path |-> "/m2", filename |-> "a.flac", ext |-> "flac", is_dir |-> FALSE]
      [] e = "j" -> [root |-> "/m1", path |-> "/m1", filename |-> "cover.jpg", ext |-> "jpg", is_dir |-> FALSE]
      [] e = "d" -> [root |-> "/m1", path |-> "/m1", filename |-> "sub", ext |-> "", is_dir |-> TRUE]

\* mime_guess::from_path(path).first(): the type guessed from the extension.
MimeGuess(ext) ==
    CASE ext = "flac" -> Some("audio")
      [] ext = "jpg" -> Some("image")
      [] OTHER -> None

\* ------------------------------------------------------ audio and tag data
\* A packet of the container: the track it belongs to, its bytes, what the
\* decoder makes of it ("ok", "corrupt": a DecodeError, "io": any other
\* error) and the samples it decodes to.
Packet(track, data, decode, samples) ==
    [track_id |-> track, data |-> data, decode |-> decode, samples |-> samples]

\* A duration in milliseconds (u128) in two limbs: hi * 2^31 + lo.
Millis(hi, lo) == [hi |-> hi, lo |-> lo]

\* What symphonia and lofty find in a file: whether there is a default track,
\* its id, channel count and sample rate, whether a decoder exists for its
\* codec, the packets next_packet yields, how the stream ends ("eof": an
\* UnexpectedEof error, "reset": any other error) and the duration.
Stereo(packets, stream_end, duration) ==
    [default_track |-> TRUE, track_id |-> 0, channels |-> Some(2),
     sample_rate |-> Some(44100), codec |-> TRUE,
     packets |-> packets, stream_end |-> stream_end, duration |-> duration]

\* The audio a file of the library can hold.
AudioIds == {"A1", "A2", "M1"}
\* The audio index_song can meet: also a file without a default track (N1),
\* without channel information (N2), of unknown (R0) or unusual (R1) sample
\* rate, of a codec without decoder (K1), with a corrupt packet (E1), with a
\* packet the decoder fails on (E2), a stream that ends in an error (X1), a
\* stream whose packets all belong to another track (S1), a stream without
\* packets (S0), a file too long for the duration column (L1), a stream with
\* a packet of another track among those of the default track (S2) and a
\* stream whose packets are all corrupt (E3).
AllAudioIds ==
    AudioIds \cup {"N1", "N2", "R0", "R1", "K1", "E1", "E2", "X1", "S1", "S0", "L1", "S2", "E3"}
Audio(a) ==
    LET p1 == Packet(0, <<1, 2>>, "ok", <<10, 20>>)
        p2 == Packet(0, <<3>>, "ok", <<30>>)
        a1 == Stereo(<<p1, p2>>, "eof", Millis(0, 1000))
    IN
    CASE a = "A1" -> a1
      [] a = "A2" -> Stereo(<<p2, p1>>, "eof", Millis(0, 2000))
      [] a = "M1" -> [Stereo(<<Packet(0, <<2, 2>>, "ok", <<5>>)>>, "eof", Millis(0, 500))
                        EXCEPT !.channels = Some(1)]
      [] a = "N1" -> [a1 EXCEPT !.default_track = FALSE]
      [] a = "N2" -> [a1 EXCEPT !.channels = None]
      [] a = "R0" -> [a1 EXCEPT !.sample_rate = None]
      [] a = "R1" -> [a1 EXCEPT !.sample_rate = Some(96000)]
      [] a = "K1" -> [a1 EXCEPT !.codec = FALSE]
      [] a = "E1" -> Stereo(<<p1, Packet(0, <<4>>, "corrupt", <<>>), p2>>, "eof", Millis(0, 1000))
      [] a = "E2" -> Stereo(<<p1, Packet(0, <<4>>, "io", <<>>), p2>>, "eof", Millis(0, 1000))
      [] a = "X1" -> Stereo(<<p1, p2>>, "reset", Millis(0, 1000))
      [] a = "S1" -> Stereo(<<Packet(1, <<1, 2>>, "ok", <<10, 20>>), Packet(1, <<3>>, "ok", <<30>>)>>,
                            "eof", Millis(0, 1000))
      [] a = "S0" -> Stereo(<<>>, "eof", Millis(0, 0))
      [] a = "L1" -> Stereo(<<p1, p2>>, "eof", Millis(1, 5))
      [] a = "S2" -> Stereo(<<p1, Packet(1, <<5>>, "ok", <<40>>), p2>>, "eof", Millis(0, 1000))
      [] a = "E3" -> Stereo(<<Packet(0, <<4>>, "corrupt", <<>>), Packet(0, <<6>>, "corrupt", <<>>)>>,
                            "eof", Millis(0, 1000))

\* Strings are sequences of characters.  "SUP2" stands for a superscript two
\* and "PLEAD" for an emoji: one character each.
RgTrackGain == <<"-", "8", ".", "9", "7", " ", "d", "B">>
RgTrackPeak == <<"0", ".", "9", "3">>
RgAlbumGain == <<"-", "7", ".", "5", " ", "d", "B">>
RgAlbumPeak == <<"0", ".", "9", "9">>
RgGarbage == <<"n", "/", "a">>

\* The tags a file of the library can carry (lofty's primary tag).
TagIds == {"T1", "T2"}
\* The tags index_song can meet: also album values without track values (T3),
\* a track gain that is no number (T4), track values without album values
\* (T5) and an album gain that is no number (T6).
AllTagIds == TagIds \cup {"T3", "T4", "T5", "T6"}
Tags(t) ==
    LET t1 == [artist |-> Some("x"), album_artist |-> None, title |-> Some("one"), album |-> None,
               genre |-> None, track |-> Some(1), disk |-> None, year |-> None,
               rg_track_gain |-> None, rg_track_peak |-> None,
               rg_album_gain |-> None, rg_album_peak |-> None]
        t2 == [artist |-> Some("y"), album_artist |-> Some("y"), title |-> Some("two"), album |-> Some("al"),
               genre |-> Some("g"), track |-> Some(2), disk |-> Some(1), year |-> Some(1999),
               rg_track_gain |-> Some(RgTrackGain), rg_track_peak |-> Some(RgTrackPeak),
               rg_album_gain |-> Some(RgAlbumGain), rg_album_peak |-> Some(RgAlbumPeak)]
    IN
    CASE t = "T1" -> t1
      [] t = "T2" -> t2
      [] t = "T3" -> [t1 EXCEPT !.rg_album_gain = Some(RgAlbumGain), !.rg_album_peak = Some(RgAlbumPeak)]
      [] t = "T4" -> [t2 EXCEPT !.rg_track_gain = Some(RgGarbage)]
      [] t = "T5" -> [t2 EXCEPT !.rg_album_gain = None, !.rg_album_peak = None]
      [] t = "T6" -> [t2 EXCEPT !.rg_album_gain = Some(RgGarbage)]

VARIABLES
    now,          \* the wall clock, in seconds since the epoch
    files,        \* the audio files on disk: [exists, mtime, audio, tags]
    library,      \* the library table: a set of rows
    sources,      \* the sources table: id -> last_indexed (Option<String>)
    pc,           \* where the index_source call is
    source,       \* its source argument (the id)
    force,        \* its force argument
    indexed_ts,   \* its cutoff, read from the sources table
    walk,         \* the entries WalkDir collected, in walk order
    results,      \* what index_song returned for each audio entry of the walk
    songs,        \* the collected records
    store_log,    \* the statements this call has executed on the store
    failed_at,    \* the step an erring call failed at
    pre_library,  \* the library table when the call started
    pre_sources,  \* the sources table when the call started
    nruns,        \* the calls made so far
    nedits,       \* the file modifications made so far
    song_pc,      \* where the index_song call on one file is
    song_audio,   \* the audio of that file
    song_tags,    \* the tags of that file
    iter,         \* its FormatReaderIter
    song_out,     \* what the call returned
    gain_pc,      \* where the parse_gain call is
    gain,         \* its argument, a string
    parsed,       \* what it returned
    hash_pc,      \* where the two checksum computations are
    written,      \* the byte sequences written to the two hashers
    sums,         \* the two checksums
    fetch_pc,     \* where the fetching::index_source call is
    mode,         \* its mode argument (IndexMode)
    kind,         \* the kind of its source (SourceKind)
    existing,     \* the filenames it found in the library (mode New)
    todo,         \* the audio files its walk has still to yield
    read,         \* the files it has read and hashed, in order
    remote        \* the records the remote source serves

vars == <<now, files, library, sources, pc, source, force, indexed_ts, walk,
          results, songs, store_log, failed_at, pre_library, pre_sources, nruns, nedits>>

\* The variables of one index_song call and of one parse_gain call.
songVars == <<song_pc, song_audio, song_tags, iter, song_out>>
gainVars == <<gain_pc, gain, parsed>>
hashVars == <<hash_pc, written, sums>>
fetchVars == <<fetch_pc, mode, kind, existing, todo, read, remote>>
callVars == <<songVars, gainVars, hashVars, fetchVars>>

runVars == <<pc, source, force, indexed_ts, walk, results, songs, store_log,
             failed_at, pre_library, pre_sources, nruns>>

\* ------------------------------------------------------------ pure functions
\* i64::to_string: the decimal digits, most significant first (n >= 0 here).
RECURSIVE I64ToString(_)
I64ToString(n) == IF n < 10 THEN <<n>> ELSE I64ToString(n \div 10) \o <<n % 10>>

\* str::parse::<i64> of a digit string.
RECURSIVE ParseI64(_)
ParseI64(str) ==
    IF Len(str) = 1 THEN str[1]
    ELSE 10 * ParseI64(SubSeq(str, 1, Len(str) - 1)) + str[Len(str)]

\* Mutant of AdlerByte: the second sum adds the byte, not the first sum.
AdlerByteUnordered(st, byte) ==
    [a |-> (st.a + byte) % 65521, b |-> (st.b + byte) % 65521]

\* Mutant of AdlerWrite: every write also adds the number of its bytes to
\* the second sum, as a framed checksum would.
RECURSIVE AdlerWriteFramed(_, _)
AdlerWriteFramed(st, bytes) ==
    IF bytes = <<>> THEN [st EXCEPT !.b = (st.b + 1) % 65521]
    ELSE AdlerWriteFramed([a |-> (st.a + Head(bytes)) % 65521,
                           b |-> (st.b + ((st.a + Head(bytes)) % 65521)) % 65521], Tail(bytes))

\* Adler32::write: the two running sums over one byte, then over a buffer.
AdlerMod == 65521
AdlerByte(st, byte) ==
    LET a == (st.a + byte) % AdlerMod
    IN  [a |-> a, b |-> (st.b + a) % AdlerMod]

RECURSIVE AdlerWrite(_, _)
AdlerWrite(st, bytes) ==
    IF bytes = <<>> THEN st
    ELSE AdlerWrite(AdlerByte(st, Head(bytes)), Tail(bytes))

\* Adler32::new and Hasher::finish (the checksum as u64).
AdlerNew == [a |-> 1, b |-> 0]
AdlerFinish(st) == st.b * 65536 + st.a

\* FormatReaderIter::process, the checksum side: every packet, in stream
\* order, is written to the hasher.
RECURSIVE HashPackets(_, _)
HashPackets(st, packets) ==
    IF packets = <<>> THEN st
    ELSE HashPackets(AdlerWrite(st, Head(packets).data), Tail(packets))

\* ------------------------------------------------------------ parse_gain
\* f32 values are held as decimals m * 10^-e without trailing zeros: two
\* strings that denote the same decimal parse to the same f32.
RECURSIVE Decimal(_, _)
Decimal(m, e) ==
    IF e > 0 /\ m % 10 = 0 THEN Decimal(m \div 10, e - 1) ELSE [m |-> m, e |-> e]

Digits == {"0", "1", "2", "3", "4", "5", "6", "7", "8", "9"}
DigitVal(c) ==
    CASE c = "0" -> 0 [] c = "1" -> 1 [] c = "2" -> 2 [] c = "3" -> 3 [] c = "4" -> 4
      [] c = "5" -> 5 [] c = "6" -> 6 [] c = "7" -> 7 [] c = "8" -> 8 [] c = "9" -> 9

\* Mutant of IsNumeric: letters count too (is_alphanumeric).
IsAlphanumeric(c) == c \notin {"-", "+", ".", " ", ":", "PLEAD"}

\* char::is_numeric: the decimal digits and the other numeric characters.
IsNumeric(c) == c \in Digits \cup {"SUP2"}

\* Mutant of GainFilter: the minus sign is not kept.
GainFilterDropsMinus(c) == IsNumeric(c) \/ c \in {"+", "."}

\* The filter of parse_gain keeps numeric characters, signs and dots.
GainFilter(c) == IsNumeric(c) \/ c \in {"-", "+", "."}

RECURSIVE DigitsValue(_)
DigitsValue(ds) ==
    IF ds = <<>> THEN 0
    ELSE 10 * DigitsValue(SubSeq(ds, 1, Len(ds) - 1)) + DigitVal(ds[Len(ds)])

\* Mutant of ParseF32: a string without digits is zero.
ParseF32EmptyIsZero(str) ==
    LET signed == str # <<>> /\ str[1] \in {"-", "+"}
        body == IF signed THEN Tail(str) ELSE str
        dots == {i \in DOMAIN body : body[i] = "."}
        dot == IF dots = {} THEN Len(body) + 1 ELSE CHOOSE i \in dots : TRUE
        int == SubSeq(body, 1, dot - 1)
        frac == SubSeq(body, dot + 1, Len(body))
        valid == /\ Cardinality(dots) <= 1
                 /\ \A i \in DOMAIN body : body[i] \in Digits \cup {"."}
        mant == DigitsValue(int \o frac)
    IN  IF valid
        THEN Some(Decimal(IF signed /\ str[1] = "-" THEN -mant ELSE mant, Len(frac)))
        ELSE None

\* str::parse::<f32> on what the filter can leave: an optional sign, then
\* digits with at most one dot and at least one digit.  No exponent, "inf"
\* or "nan" survives the filter.  None is the ParseFloatError.
ParseF32(str) ==
    LET signed == str # <<>> /\ str[1] \in {"-", "+"}
        body == IF signed THEN Tail(str) ELSE str
        dots == {i \in DOMAIN body : body[i] = "."}
        dot == IF dots = {} THEN Len(body) + 1 ELSE CHOOSE i \in dots : TRUE
        int == SubSeq(body, 1, dot - 1)
        frac == SubSeq(body, dot + 1, Len(body))
        valid == /\ Cardinality(dots) <= 1
                 /\ \A i \in DOMAIN body : body[i] \in Digits \cup {"."}
                 /\ Len(int) + Len(frac) >= 1
        mant == DigitsValue(int \o frac)
    IN  IF valid
        THEN Some(Decimal(IF signed /\ str[1] = "-" THEN -mant ELSE mant, Len(frac)))
        ELSE None

\* parse_gain(gain): filter, collect, parse (str is its gain argument).
ParseGain(str) == ParseF32(SelectSeq(str, GainFilter))

\* ------------------------------------------------------------- replaygain
\* One loudness tag: get_string(..).and_then(|v| parse_gain(v).ok()).
TagGain(item) == IF IsSome(item) THEN ParseGain(Unwrap(item)) ELSE None

\* ReplayGainResult::try_from(tags): the tags give the loudness result when
\* both track values are there and parse; None is its Err.
ReplayGainFromTags(t) ==
    LET rg_track_gain == TagGain(t.rg_track_gain)
        rg_track_peak == TagGain(t.rg_track_peak)
    IN  IF IsSome(rg_track_gain) /\ IsSome(rg_track_peak)
        THEN Some([track_gain |-> Unwrap(rg_track_gain), track_peak |-> Unwrap(rg_track_peak),
                   album_gain |-> TagGain(t.rg_album_gain),
                   album_peak |-> TagGain(t.rg_album_peak)])
        ELSE None

\* replaygain::ReplayGain::new(sample_rate) is Some for these rates.
RateSupported(rate) ==
    rate \in {8000, 11025, 12000, 16000, 22050, 24000, 32000, 44100, 48000}

\* The states of the loudness computation (enum ReplayGainState), one record
\* shape for the three: Finished holds res, Computing the accumulator's data
\* and sample_buf and the track id, Failed the error.  decoder is the
\* history of the accumulator's decoder: the packets decode was called on.
NoResult == [track_gain |-> Decimal(0, 0), track_peak |-> Decimal(0, 0),
             album_gain |-> None, album_peak |-> None]
Finished(res) ==
    [st |-> "Finished", res |-> res, data |-> <<>>, sample_buf |-> None, track_id |-> 0, err |-> "",
     decoder |-> <<>>]
Computing(data, sample_buf, track_id) ==
    [st |-> "Computing", res |-> NoResult, data |-> data, sample_buf |-> sample_buf,
     track_id |-> track_id, err |-> "", decoder |-> <<>>]
Failed(e) ==
    [st |-> "Failed", res |-> NoResult, data |-> <<>>, sample_buf |-> None, track_id |-> 0, err |-> e,
     decoder |-> <<>>]

\* ReplayGain::init(sample_rate, track), mapped into the state by
\* FormatReaderIter::new.
ReplayGainInit(audio) ==
    IF ~RateSupported(Unwrap(audio.sample_rate)) THEN Failed("unsupported sample rate")
    ELSE IF ~audio.codec THEN Failed("unsupported codec")
    ELSE Computing(<<>>, None, audio.track_id)

\* Mutant of ReplayGainHandlePacket: the packet's track is not looked at.
ReplayGainHandlePacketAnyTrack(rg, packet) ==
    IF packet.decode = "io"
    THEN [Failed("decode") EXCEPT !.decoder = Append(rg.decoder, packet)]
    ELSE LET buf == IF packet.decode = "ok" THEN Some(packet.samples) ELSE rg.sample_buf
         IN  [Computing(rg.data \o (IF IsSome(buf) THEN Unwrap(buf) ELSE <<>>), buf, rg.track_id)
                 EXCEPT !.decoder = Append(rg.decoder, packet)]

\* ReplayGain::handle_packet on a Computing state: a packet of the track is
\* decoded into sample_buf; a corrupt packet leaves sample_buf as it was; any
\* other decoder error is returned.  Whatever sample_buf then holds is
\* appended to data.
ReplayGainHandlePacket(rg, packet) ==
    IF packet.track_id # rg.track_id THEN rg
    ELSE IF packet.decode = "io"
         THEN [Failed("decode") EXCEPT !.decoder = Append(rg.decoder, packet)]
    ELSE LET buf == IF packet.decode = "ok" THEN Some(packet.samples) ELSE rg.sample_buf
         IN  [Computing(rg.data \o (IF IsSome(buf) THEN Unwrap(buf) ELSE <<>>), buf, rg.track_id)
                 EXCEPT !.decoder = Append(rg.decoder, packet)]

\* Mutant of HandlePacket: a Failed state starts a new accumulator on the
\* next packet.
HandlePacketRetries(rg, packet) ==
    IF rg.st = "Computing" THEN ReplayGainHandlePacket(rg, packet)
    ELSE IF rg.st = "Failed" THEN ReplayGainHandlePacket(Computing(<<>>, None, packet.track_id), packet)
    ELSE rg

\* ReplayGainState::handle_packet: only a Computing state takes the packet.
HandlePacket(rg, packet) ==
    IF rg.st = "Computing" THEN ReplayGainHandlePacket(rg, packet) ELSE rg

\* What the loudness algorithm (crate replaygain) makes of the samples: a
\* gain and a peak, here the negated sum and the maximum, in 1/100.
RECURSIVE SumSeq(_)
SumSeq(xs) == IF xs = <<>> THEN 0 ELSE Head(xs) + SumSeq(Tail(xs))
MaxSeq(xs) == CHOOSE m \in Range(xs) : \A x \in Range(xs) : x <= m

\* The results of process's loudness side and of index_song's steps.
RgOk(res) == [ok |-> TRUE, res |-> res, err |-> ""]
RgErr(e) == [ok |-> FALSE, res |-> NoResult, err |-> e]

\* Mutant of ReplayGainFinish: the algorithm is run on an empty buffer too.
ReplayGainFinishOnEmpty(rg) ==
    RgOk([track_gain |-> Decimal(-SumSeq(rg.data), 2),
          track_peak |-> IF rg.data = <<>> THEN Decimal(0, 0) ELSE Decimal(MaxSeq(rg.data), 2),
          album_gain |-> None, album_peak |-> None])

\* ReplayGain::finish: the computed track values, no album values; an error
\* when no sample was accumulated.
ReplayGainFinish(rg) ==
    IF rg.data = <<>> THEN RgErr("no samples")
    ELSE RgOk([track_gain |-> Decimal(-SumSeq(rg.data), 2),
               track_peak |-> Decimal(MaxSeq(rg.data), 2),
               album_gain |-> None, album_peak |-> None])

\* ------------------------------------------------------- FormatReaderIter
\* The iterator: pos packets read, the stream error met, the hasher, the
\* loudness state.
Iter(pos, error, hash, rg) == [pos |-> pos, error |-> error, hash |-> hash, rg |-> rg]

\* FormatReaderIter::new(inner, rg): [ok, iter] or [ok, err].
NewErr(e) == [ok |-> FALSE, err |-> e, iter |-> Iter(0, None, AdlerNew, Failed(e))]

\* Mutant of FormatReaderIterNew: the loudness computation is set up whatever
\* the tags give.
FormatReaderIterNewComputes(audio, rg) ==
    IF ~audio.default_track THEN NewErr("no default track")
    ELSE IF ~(IsSome(audio.channels) /\ Unwrap(audio.channels) = 2) THEN NewErr("channels")
    ELSE IF ~IsSome(audio.sample_rate) THEN NewErr("sample rate")
    ELSE [ok |-> TRUE, err |-> "", iter |-> Iter(0, None, AdlerNew, ReplayGainInit(audio))]

\* Mutant of FormatReaderIterNew: the channel count and the sample rate are
\* looked at only when the loudness has to be computed.
FormatReaderIterNewGatesComputing(audio, rg) ==
    IF ~audio.default_track THEN NewErr("no default track")
    ELSE IF IsSome(rg) THEN [ok |-> TRUE, err |-> "",
                             iter |-> Iter(0, None, AdlerNew, Finished(Unwrap(rg)))]
    ELSE IF ~(IsSome(audio.channels) /\ Unwrap(audio.channels) = 2) THEN NewErr("channels")
    ELSE IF ~IsSome(audio.sample_rate) THEN NewErr("sample rate")
    ELSE [ok |-> TRUE, err |-> "", iter |-> Iter(0, None, AdlerNew, ReplayGainInit(audio))]

FormatReaderIterNew(audio, rg) ==
    IF ~audio.default_track THEN NewErr("no default track")
    ELSE IF ~(IsSome(audio.channels) /\ Unwrap(audio.channels) = 2) THEN NewErr("channels")
    ELSE IF ~IsSome(audio.sample_rate) THEN NewErr("sample rate")
    ELSE [ok |-> TRUE, err |-> "",
          iter |-> Iter(0, None, AdlerNew,
                        IF IsSome(rg) THEN Finished(Unwrap(rg)) ELSE ReplayGainInit(audio))]

\* Iterator::next: the next packet, or None at the end of the stream, where
\* an error other than UnexpectedEof is kept in error.
HasNext(audio, it) == it.pos < Len(audio.packets)
NextPacket(audio, it) == audio.packets[it.pos + 1]
AtEnd(audio, it) ==
    [it EXCEPT !.error = IF audio.stream_end = "eof" THEN None ELSE Some(audio.stream_end)]

\* Mutant of LoopBody: once the loudness has failed the packets are no longer
\* hashed.
LoopBodySkipsFailed(it, packet) ==
    [it EXCEPT !.pos = it.pos + 1,
               !.hash = IF it.rg.st = "Failed" THEN it.hash ELSE AdlerWrite(it.hash, packet.data),
               !.rg = HandlePacket(it.rg, packet)]

\* The body of process's loop: the packet is hashed, then handed to the
\* loudness state.
LoopBody(it, packet) ==
    [it EXCEPT !.pos = it.pos + 1,
               !.hash = AdlerWrite(it.hash, packet.data),
               !.rg = HandlePacket(it.rg, packet)]

\* Mutant of ProcessEnd: the loudness state is looked at before the stream's
\* error, which is returned only when the state gives no values.
ProcessEndLoudnessFirst(it) ==
    [hash |-> AdlerFinish(it.hash),
     rg |-> IF it.rg.st = "Finished" THEN RgOk(it.rg.res)
            ELSE IF IsSome(it.error) THEN RgErr(Unwrap(it.error))
            ELSE IF it.rg.st = "Computing" THEN ReplayGainFinish(it.rg)
            ELSE RgErr(it.rg.err)]

\* process after the loop: the checksum and the loudness result.
ProcessEnd(it) ==
    [hash |-> AdlerFinish(it.hash),
     rg |-> IF IsSome(it.error) THEN RgErr(Unwrap(it.error))
            ELSE IF it.rg.st = "Finished" THEN RgOk(it.rg.res)
            ELSE IF it.rg.st = "Computing" THEN ReplayGainFinish(it.rg)
            ELSE RgErr(it.rg.err)]

\* process: the loop to the end of the stream, then the result.
RECURSIVE Process(_, _)
Process(audio, it) ==
    IF HasNext(audio, it) THEN Process(audio, LoopBody(it, NextPacket(audio, it)))
    ELSE ProcessEnd(AtEnd(audio, it))

\* Mutant of ProcessPackets: the container's metadata is hashed with the
\* packets (the tag block reaches the hasher when loudness tags are there).
ProcessPacketsHashesMetadata(audio, rg) ==
    LET new == FormatReaderIterNew(audio, rg)
        it == [new.iter EXCEPT !.hash = IF IsSome(rg) THEN AdlerWrite(AdlerNew, <<7>>) ELSE AdlerNew]
    IN  IF ~new.ok THEN [ok |-> FALSE, err |-> new.err, hash |-> 0, rg |-> RgErr(new.err)]
        ELSE LET out == Process(audio, it)
             IN  [ok |-> TRUE, err |-> "", hash |-> out.hash, rg |-> out.rg]

\* FormatReaderIter::new(..)?.process(): Err when new fails, else the
\* checksum of the packets and the loudness result.
ProcessPackets(audio, rg) ==
    LET new == FormatReaderIterNew(audio, rg)
    IN  IF ~new.ok THEN [ok |-> FALSE, err |-> new.err, hash |-> 0, rg |-> RgErr(new.err)]
        ELSE LET out == Process(audio, new.iter)
             IN  [ok |-> TRUE, err |-> "", hash |-> out.hash, rg |-> out.rg]

\* u64 -> u32 (the hash column, read as u32 by playback::decode_track) and
\* u128 -> i32 (the duration column, an integer column of the library table):
\* try_into succeeds when the value fits.  FitsU32 compares the high half,
\* 2^32 being more than the checker's integers hold; a duration fits when
\* its high limb is empty.
FitsU32(v) == v \div 65536 <= 65535
I32Max == 2147483647
FitsI32Always(v) == TRUE
FitsI32(v) == v.hi = 0 /\ v.lo <= I32Max

\* index_song's results.
Pending == [st |-> "pending", val |-> None, err |-> ""]
OkNone == [st |-> "ok", val |-> None, err |-> ""]
OkSome(song) == [st |-> "ok", val |-> Some(song), err |-> ""]
Err(e) == [st |-> "err", val |-> None, err |-> e]

\* The timestamp check of index_song: the file counts as modified when its
\* modification time is at or after the cutoff (duration_since(..).is_ok()).
Modified(mtime, ts) == mtime >= ts

\* The record index_song builds for a decoded file.
BuildSong(e, src, t, audio, hash, rg) ==
    [path |-> EntryInfo(e).path, filename |-> EntryInfo(e).filename,
     source_id |-> src, hash |-> hash,
     artist |-> t.artist, album_artist |-> t.album_artist, name |-> t.title,
     album |-> t.album, genres |-> t.genre, track |-> t.track, disc |-> t.disk,
     year |-> t.year, duration |-> audio.duration.lo,
     rg_track_gain |-> Some(rg.track_gain), rg_track_peak |-> Some(rg.track_peak),
     rg_album_gain |-> rg.album_gain, rg_album_peak |-> rg.album_peak]

\* index_song after process: the loudness error is returned, the checksum
\* and the duration are converted, the record is built.
SongOf(e, src, t, audio, hash, rg) ==
    IF ~rg.ok THEN Err(rg.err)
    ELSE IF ~FitsU32(hash) THEN Err("cast hash")
    ELSE IF ~FitsI32(audio.duration) THEN Err("cast duration")
    ELSE OkSome(BuildSong(e, src, t, audio, hash, rg.res))

\* index_song from the read of the tags on.
ReadAndIndex(e, src, t, audio) ==
    LET res == ProcessPackets(audio, ReplayGainFromTags(t))
    IN  IF ~res.ok THEN Err(res.err)
        ELSE SongOf(e, src, t, audio, res.hash, res.rg)

\* Mutant of IndexSong: the timestamp check is made in forced runs too.
IndexSongIgnoresForce(e, f, src, frc, ts) ==
    IF ~f.exists THEN Err("metadata")
    ELSE IF Modified(f.mtime, ts) THEN OkNone
    ELSE ReadAndIndex(e, src, Tags(f.tags), Audio(f.audio))

\* index_song(file, source, force, indexed_ts) on the file as it is on disk.
IndexSong(e, f, src, frc, ts) ==
    IF ~frc /\ ~f.exists THEN Err("metadata")
    ELSE IF ~frc /\ Modified(f.mtime, ts) THEN OkNone
    ELSE IF ~f.exists THEN Err("read")
    ELSE ReadAndIndex(e, src, Tags(f.tags), Audio(f.audio))

\* ------------------------------------------------------------- the store
\* Mutant of UpdateRow: the conflicting row is overwritten by the new record,
\* its path, filename and source id included.
UpdateRowOverwritesPath(row, song) ==
    [row EXCEPT !.path = song.path, !.filename = song.filename,
                !.source_id = song.source_id,
                !.artist = song.artist, !.album_artist = song.album_artist,
                !.name = song.name, !.album = song.album,
                !.duration = song.duration, !.genres = song.genres,
                !.track = song.track, !.disc = song.disc, !.year = song.year,
                !.rg_track_gain = song.rg_track_gain, !.rg_track_peak = song.rg_track_peak,
                !.rg_album_gain = song.rg_album_gain, !.rg_album_peak = song.rg_album_peak]

\* The columns the upsert's ON CONFLICT (hash) DO UPDATE sets from the new row.
UpdateRow(row, song) ==
    [row EXCEPT !.artist = song.artist, !.album_artist = song.album_artist,
                !.name = song.name, !.album = song.album,
                !.duration = song.duration, !.genres = song.genres,
                !.track = song.track, !.disc = song.disc, !.year = song.year,
                !.rg_track_gain = song.rg_track_gain, !.rg_track_peak = song.rg_track_peak,
                !.rg_album_gain = song.rg_album_gain, !.rg_album_peak = song.rg_album_peak]

\* The id an inserted row gets (auto-increment primary key).
NextId(lib) ==
    IF lib = {} THEN 1
    ELSE 1 + CHOOSE m \in {r.id : r \in lib} : \A r \in lib : r.id <= m

\* A new row: the record's columns and the next id.
NewRow(lib, song) ==
    [id |-> NextId(lib), path |-> song.path, filename |-> song.filename,
     source_id |-> song.source_id, hash |-> song.hash,
     artist |-> song.artist, album_artist |-> song.album_artist, name |-> song.name,
     album |-> song.album, genres |-> song.genres, track |-> song.track,
     disc |-> song.disc, year |-> song.year, duration |-> song.duration,
     rg_track_gain |-> song.rg_track_gain, rg_track_peak |-> song.rg_track_peak,
     rg_album_gain |-> song.rg_album_gain, rg_album_peak |-> song.rg_album_peak]

\* Mutant of UpsertOne: the row with the record's checksum is replaced by the
\* record (insert or replace), location included.
UpsertOneReplaces(lib, song) ==
    IF \E r \in lib : r.hash = song.hash
    THEN {IF r.hash = song.hash THEN [NewRow(lib, song) EXCEPT !.id = r.id] ELSE r : r \in lib}
    ELSE lib \cup {NewRow(lib, song)}

\* Mutant of UpsertOne: the conflict is detected on the path and filename,
\* not on the hash.
UpsertOneByFilename(lib, song) ==
    IF \E r \in lib : r.path = song.path /\ r.filename = song.filename
    THEN {IF r.path = song.path /\ r.filename = song.filename
          THEN UpdateRow(r, song) ELSE r : r \in lib}
    ELSE lib \cup {NewRow(lib, song)}

\* One row of the insert: a row with the same hash is updated, else the row
\* is inserted.
UpsertOne(lib, song) ==
    IF \E r \in lib : r.hash = song.hash
    THEN {IF r.hash = song.hash THEN UpdateRow(r, song) ELSE r : r \in lib}
    ELSE lib \cup {NewRow(lib, song)}

\* insert_many(songs).on_conflict(..): the rows, in order, in one statement.
RECURSIVE InsertManyOnConflict(_, _)
InsertManyOnConflict(lib, rows) ==
    IF rows = <<>> THEN lib
    ELSE InsertManyOnConflict(UpsertOne(lib, Head(rows)), Tail(rows))

\* The source's last_indexed column, "0" when there is none.
LastIndexed(srcs, s) == IF IsSome(srcs[s]) THEN Unwrap(srcs[s]) ELSE <<0>>

\* ------------------------------------------------------------- the walk

\* The entries that exist under the root of source s.
Present(s) ==
    {e \in Entries : EntryInfo(e).root = SourcePath(s)
                     /\ (e \in AudioEntries => files[e].exists)}

\* The orders WalkDir can yield them in: a directory before what it holds.
Walks(s) ==
    {w \in [1..Cardinality(Present(s)) -> Present(s)] :
        /\ \A i, j \in DOMAIN w : i # j => w[i] # w[j]
        /\ \A i, j \in DOMAIN w : (w[i] = "d" /\ w[j] = "b") => i < j}

\* The two filters of index_source: no directories, audio types only.
IsAudioFile(e) ==
    /\ ~EntryInfo(e).is_dir
    /\ LET m == MimeGuess(EntryInfo(e).ext) IN IsSome(m) /\ Unwrap(m) = "audio"

\* collect().into_iter().flatten(): the records, in walk order.
RECURSIVE Flatten(_, _)
Flatten(w, res) ==
    IF w = <<>> THEN <<>>
    ELSE res[Head(w)].val \o Flatten(Tail(w), res)

\* ---------------------------------------------------------------- Init
\* No index_song call and no parse_gain call of their own is under way.
SongIdle ==
    /\ song_pc = "idle"
    /\ song_audio = "A1"
    /\ song_tags = "T1"
    /\ iter = Iter(0, None, AdlerNew, Failed(""))
    /\ song_out = Pending

GainIdle ==
    /\ gain_pc = "idle"
    /\ gain = <<>>
    /\ parsed = None

HashIdle ==
    /\ hash_pc = "idle"
    /\ written = <<<<>>, <<>>>>
    /\ sums = <<0, 0>>

\* The files of the two roots, an empty library, no call under way.
LibraryInit ==
    /\ now = 1
    /\ files = [e \in AudioEntries |->
                  [exists |-> TRUE, mtime |-> 1,
                   audio |-> IF e = "c" THEN "A2" ELSE "A1",
                   tags |-> IF e = "a" THEN "T1" ELSE "T2"]]
    /\ library = {}
    /\ sources = [s \in SourceIds |-> None]
    /\ pc = "idle"
    /\ source = 1
    /\ force = FALSE
    /\ indexed_ts = 0
    /\ walk = <<>>
    /\ results = <<>>
    /\ songs = <<>>
    /\ store_log = <<>>
    /\ failed_at = ""
    /\ pre_library = {}
    /\ pre_sources = [s \in SourceIds |-> None]
    /\ nruns = 0
    /\ nedits = 0

\* No fetching::index_source call is under way.
FetchIdle ==
    /\ fetch_pc = "idle"
    /\ mode = "Initial"
    /\ kind = "Local"
    /\ existing = {}
    /\ todo = <<>>
    /\ read = <<>>
    /\ remote = <<>>

\* ------------------------------------------------------- the environment
Tick ==
    /\ now < MaxTime
    /\ now' = now + 1
    /\ UNCHANGED <<callVars, files, library, sources, runVars, nedits>>

\* A tagger rewrites the file's tags: the audio packets stay.
Retag(e, t) ==
    /\ nedits < MaxEdits
    /\ files[e].exists /\ files[e].tags # t
    /\ files' = [files EXCEPT ![e].tags = t, ![e].mtime = now]
    /\ nedits' = nedits + 1
    /\ UNCHANGED <<callVars, now, library, sources, runVars>>

\* The file's audio is replaced.
Reencode(e, a) ==
    /\ nedits < MaxEdits
    /\ files[e].exists /\ files[e].audio # a
    /\ files' = [files EXCEPT ![e].audio = a, ![e].mtime = now]
    /\ nedits' = nedits + 1
    /\ UNCHANGED <<callVars, now, library, sources, runVars>>

\* The file is deleted.
Remove(e) ==
    /\ nedits < MaxEdits
    /\ files[e].exists
    /\ files' = [files EXCEPT ![e].exists = FALSE]
    /\ nedits' = nedits + 1
    /\ UNCHANGED <<callVars, now, library, sources, runVars>>

\* ---------------------------------------------------------- index_source
\* The call starts: the cutoff is read and the root is walked.
Start(s, frc) ==
    /\ pc \in {"idle", "ok", "err"}
    /\ nruns < MaxRuns
    /\ nruns' = nruns + 1
    /\ source' = s
    /\ force' = frc
    /\ indexed_ts' = ParseI64(LastIndexed(sources, s))
    /\ \E w \in Walks(s) :
          /\ walk' = SelectSeq(w, IsAudioFile)
          /\ results' = [e \in Range(walk') |-> Pending]
    /\ songs' = <<>>
    /\ store_log' = <<>>
    /\ failed_at' = ""
    /\ pre_library' = library
    /\ pre_sources' = sources
    /\ pc' = "map"
    /\ UNCHANGED <<callVars, now, files, library, sources, nedits>>

\* The query for the cutoff fails.
StartFail(s, frc) ==
    /\ pc \in {"idle", "ok", "err"}
    /\ nruns < MaxRuns
    /\ nruns' = nruns + 1
    /\ source' = s
    /\ force' = frc
    /\ walk' = <<>>
    /\ results' = <<>>
    /\ songs' = <<>>
    /\ store_log' = <<>>
    /\ failed_at' = "read"
    /\ pre_library' = library
    /\ pre_sources' = sources
    /\ pc' = "err"
    /\ UNCHANGED <<callVars, now, files, library, sources, indexed_ts, nedits>>

\* Mutant of ProcessFile: the workers share one hasher, so a file's checksum
\* goes on from the files processed before it.
ProcessFileSharedHasher(e) ==
    /\ pc = "map"
    /\ e \in DOMAIN results
    /\ results[e] = Pending
    /\ results' = [results EXCEPT ![e] =
                     LET r == IndexSong(e, files[e], source, force, indexed_ts)
                         before == {o \in DOMAIN results : results[o] # Pending}
                     IN  IF r.st = "ok" /\ IsSome(r.val) /\ before # {}
                         THEN OkSome([Unwrap(r.val) EXCEPT !.hash = @ + Cardinality(before)])
                         ELSE r]
    /\ UNCHANGED <<callVars, now, files, library, sources, pc, source, force, indexed_ts, walk,
                   songs, store_log, failed_at, pre_library, pre_sources, nruns, nedits>>

\* A worker of the pool runs index_song on one entry.
ProcessFile(e) ==
    /\ pc = "map"
    /\ e \in DOMAIN results
    /\ results[e] = Pending
    /\ results' = [results EXCEPT ![e] = IndexSong(e, files[e], source, force, indexed_ts)]
    /\ UNCHANGED <<callVars, now, files, library, sources, pc, source, force, indexed_ts, walk,
                   songs, store_log, failed_at, pre_library, pre_sources, nruns, nedits>>

\* Mutant of CollectOk: the call goes on to the insert with the results
\* that are there, while workers are still busy.
CollectOkEarly ==
    /\ pc = "map"
    /\ \A e \in DOMAIN results : results[e].st \in {"ok", "pending"}
    /\ songs' = Flatten(walk, results)
    /\ pc' = "insert"
    /\ UNCHANGED <<callVars, now, files, library, sources, source, force, indexed_ts, walk,
                   results, store_log, failed_at, pre_library, pre_sources, nruns, nedits>>

\* Mutant of CollectOk: the records are collected in the order in which the
\* workers end, which can be any.
CollectOkAnyOrder ==
    /\ pc = "map"
    /\ \A e \in DOMAIN results : results[e].st = "ok"
    /\ \E w \in {p \in [DOMAIN walk -> Range(walk)] : \A i, j \in DOMAIN walk : i # j => p[i] # p[j]} :
          songs' = Flatten(w, results)
    /\ pc' = "insert"
    /\ UNCHANGED <<callVars, now, files, library, sources, source, force, indexed_ts, walk,
                   results, store_log, failed_at, pre_library, pre_sources, nruns, nedits>>

\* Mutant of CollectOk: the failed candidates are dropped and the run goes on
\* with the records of the others.
CollectOkDropsErrors ==
    /\ pc = "map"
    /\ \A e \in DOMAIN results : results[e] # Pending
    /\ songs' = Flatten(walk, results)
    /\ pc' = "insert"
    /\ UNCHANGED <<callVars, now, files, library, sources, source, force, indexed_ts, walk,
                   results, store_log, failed_at, pre_library, pre_sources, nruns, nedits>>

\* collect::<Result<Vec<_>, _>>() with every result Ok.
CollectOk ==
    /\ pc = "map"
    /\ \A e \in DOMAIN results : results[e].st = "ok"
    /\ songs' = Flatten(walk, results)
    /\ pc' = "insert"
    /\ UNCHANGED <<callVars, now, files, library, sources, source, force, indexed_ts, walk,
                   results, store_log, failed_at, pre_library, pre_sources, nruns, nedits>>

\* collect::<Result<Vec<_>, _>>()? with an Err: the call returns it.
CollectErr ==
    /\ pc = "map"
    /\ \E e \in DOMAIN results : results[e].st = "err"
    /\ pc' = "err"
    /\ failed_at' = "map"
    /\ UNCHANGED <<callVars, now, files, library, sources, source, force, indexed_ts, walk,
                   results, songs, store_log, pre_library, pre_sources, nruns, nedits>>

\* Mutant of InsertMany: an empty list is an error (no on_empty_do_nothing).
InsertManyErrorsOnEmpty ==
    /\ pc = "insert"
    /\ IF songs = <<>>
       THEN /\ pc' = "err"
            /\ failed_at' = "insert"
            /\ UNCHANGED <<library, store_log>>
       ELSE /\ library' = InsertManyOnConflict(library, songs)
            /\ store_log' = Append(store_log, "insert_many")
            /\ pc' = "ts"
            /\ UNCHANGED failed_at
    /\ UNCHANGED <<callVars, now, files, sources, source, force, indexed_ts, walk,
                   results, songs, pre_library, pre_sources, nruns, nedits>>

\* Mutant of InsertMany: the source's rows are deleted before the insert (as
\* fetching's purge does).
InsertManyPurgesSource ==
    /\ pc = "insert"
    /\ IF songs = <<>>
       THEN UNCHANGED <<library, store_log>>
       ELSE /\ library' = InsertManyOnConflict({r \in library : r.source_id # source}, songs)
            /\ store_log' = Append(store_log, "insert_many")
    /\ pc' = "ts"
    /\ UNCHANGED <<callVars, now, files, sources, source, force, indexed_ts, walk,
                   results, songs, failed_at, pre_library, pre_sources, nruns, nedits>>

\* insert_many(songs)..on_empty_do_nothing().exec(db): nothing is executed
\* for an empty list.
InsertMany ==
    /\ pc = "insert"
    /\ IF songs = <<>>
       THEN UNCHANGED <<library, store_log>>
       ELSE /\ library' = InsertManyOnConflict(library, songs)
            /\ store_log' = Append(store_log, "insert_many")
    /\ pc' = "ts"
    /\ UNCHANGED <<callVars, now, files, sources, source, force, indexed_ts, walk,
                   results, songs, failed_at, pre_library, pre_sources, nruns, nedits>>

\* Mutant of InsertManyFail: the rows are inserted one statement at a time
\* and the failure comes after the first.
InsertManyFailPartial ==
    /\ pc = "insert"
    /\ songs # <<>>
    /\ library' = UpsertOne(library, Head(songs))
    /\ pc' = "err"
    /\ failed_at' = "insert"
    /\ UNCHANGED <<callVars, now, files, sources, source, force, indexed_ts, walk,
                   results, songs, store_log, pre_library, pre_sources, nruns, nedits>>

\* Mutant of InsertManyFail: the error of the insert is dropped and the call
\* goes on to the timestamp.
InsertManyFailIgnored ==
    /\ pc = "insert"
    /\ songs # <<>>
    /\ pc' = "ts"
    /\ UNCHANGED <<callVars, now, files, library, sources, source, force, indexed_ts, walk,
                   results, songs, store_log, failed_at, pre_library, pre_sources, nruns, nedits>>

\* The insert statement fails: it changes nothing and the call returns.
InsertManyFail ==
    /\ pc = "insert"
    /\ songs # <<>>
    /\ pc' = "err"
    /\ failed_at' = "insert"
    /\ UNCHANGED <<callVars, now, files, library, sources, source, force, indexed_ts, walk,
                   results, songs, store_log, pre_library, pre_sources, nruns, nedits>>

\* Mutant of UpdateTs: the statement has no key and sets the column of every
\* source.
UpdateTsEverySource ==
    /\ pc = "ts"
    /\ sources' = [s \in SourceIds |-> Some(I64ToString(now))]
    /\ store_log' = Append(store_log, "update_ts")
    /\ pc' = "ok"
    /\ UNCHANGED <<callVars, now, files, library, source, force, indexed_ts, walk,
                   results, songs, failed_at, pre_library, pre_sources, nruns, nedits>>

\* The upsert of the source's last_indexed to now.
UpdateTs ==
    /\ pc = "ts"
    /\ sources' = [sources EXCEPT ![source] = Some(I64ToString(now))]
    /\ store_log' = Append(store_log, "update_ts")
    /\ pc' = "ok"
    /\ UNCHANGED <<callVars, now, files, library, source, force, indexed_ts, walk,
                   results, songs, failed_at, pre_library, pre_sources, nruns, nedits>>

\* The upsert of last_indexed fails.
UpdateTsFail ==
    /\ pc = "ts"
    /\ pc' = "err"
    /\ failed_at' = "ts"
    /\ UNCHANGED <<callVars, now, files, library, sources, source, force, indexed_ts, walk,
                   results, songs, store_log, pre_library, pre_sources, nruns, nedits>>

Next ==
    \/ Tick
    \/ \E e \in Editable, t \in TagIds : Retag(e, t)
    \/ \E e \in Editable, a \in AudioIds : Reencode(e, a)
    \/ \E e \in Editable : Remove(e)
    \/ \E s \in SourceIds, frc \in BOOLEAN : Start(s, frc)
    \/ \E s \in SourceIds, frc \in BOOLEAN : StartFail(s, frc)
    \/ \E e \in AudioEntries : ProcessFile(e)
    \/ CollectOk
    \/ CollectErr
    \/ InsertMany
    \/ InsertManyFail
    \/ UpdateTs
    \/ UpdateTsFail

Init == LibraryInit /\ SongIdle /\ GainIdle /\ HashIdle /\ FetchIdle

Spec == Init /\ [][Next]_<<vars, callVars>>

\* ------------------------------------------------- one index_song call
\* index_song from the read of the tags on, packet by packet, on a file of
\* any audio and any tags (the entry is "a" of source 1).
SongInit ==
    /\ song_pc = "new"
    /\ song_audio \in AllAudioIds
    /\ song_tags \in AllTagIds
    /\ iter = Iter(0, None, AdlerNew, Failed(""))
    /\ song_out = Pending

\* FormatReaderIter::new(get_packets(path)?, try_from(tags).ok()) succeeds.
NewIter ==
    LET new == FormatReaderIterNew(Audio(song_audio), ReplayGainFromTags(Tags(song_tags)))
    IN  /\ song_pc = "new"
        /\ new.ok
        /\ iter' = new.iter
        /\ song_pc' = "loop"
        /\ UNCHANGED <<vars, gainVars, hashVars, fetchVars, song_audio, song_tags, song_out>>

\* It fails: index_song returns the error.
NewIterFail ==
    LET new == FormatReaderIterNew(Audio(song_audio), ReplayGainFromTags(Tags(song_tags)))
    IN  /\ song_pc = "new"
        /\ ~new.ok
        /\ song_out' = Err(new.err)
        /\ song_pc' = "new failed"
        /\ UNCHANGED <<vars, gainVars, hashVars, fetchVars, song_audio, song_tags, iter>>

\* One turn of process's loop.
Loop ==
    /\ song_pc = "loop"
    /\ HasNext(Audio(song_audio), iter)
    /\ iter' = LoopBody(iter, NextPacket(Audio(song_audio), iter))
    /\ UNCHANGED <<vars, gainVars, hashVars, fetchVars, song_pc, song_audio, song_tags, song_out>>

\* The stream ends: process returns and index_song builds its result.
EndOfStream ==
    /\ song_pc = "loop"
    /\ ~HasNext(Audio(song_audio), iter)
    /\ iter' = AtEnd(Audio(song_audio), iter)
    /\ LET out == ProcessEnd(iter')
       IN  song_out' = SongOf("a", 1, Tags(song_tags), Audio(song_audio), out.hash, out.rg)
    /\ song_pc' = "done"
    /\ UNCHANGED <<vars, gainVars, hashVars, fetchVars, song_audio, song_tags>>

SongNext == NewIter \/ NewIterFail \/ Loop \/ EndOfStream

InitSong == LibraryInit /\ SongInit /\ GainIdle /\ HashIdle /\ FetchIdle

SpecSong == InitSong /\ [][SongNext]_<<vars, callVars>>

\* ------------------------------------------------- one parse_gain call
\* The characters of the strings: digits, a dot, the signs, a space, a
\* letter, a colon and a numeric character that is no digit.
GainAlphabet == {"1", "5", ".", "-", "+", " ", "d", ":", "SUP2"}

\* The unit tests of parse_gain: rg_parse_expected, rg_parse_malformed and
\* rg_parse_invalid, each input with the value expected (None: an error).
GainTests ==
    {<< <<"-", "8", ".", "9", "7", " ", "d", "B">>, Some(Decimal(-897, 2)) >>,
     << <<"1", "2", ".", "7", "5", " ", "d", "B">>, Some(Decimal(1275, 2)) >>,
     << <<"0", ".", "0", "0", " ", "d", "B">>, Some(Decimal(0, 0)) >>,
     << <<"-", "8", ".", "5", "7", "1", "2", " ", "d", "B">>, Some(Decimal(-85712, 4)) >>,
     << <<"+", "2", ".", "3", " ", "d", "B">>, Some(Decimal(23, 1)) >>,
     << <<" ", " ", "1", "3", ".", "1", "2", " ", "d", "B">>, Some(Decimal(1312, 2)) >>,
     << <<"0", "0", "6", ".", "6", "6", " ", " ", "D", "b">>, Some(Decimal(666, 2)) >>,
     << <<"0", ".", "9", "3", "d", "B">>, Some(Decimal(93, 2)) >>,
     << <<"2", "4", ".", "1", "2", " ", "d", "e", "u", "t", "s", "c", "h", "e", "B", "a", "h", "n">>,
        Some(Decimal(2412, 2)) >>,
     << <<>>, None >>,
     << <<"a", "k", "j", "d", "f", "n", "h", "l", "k", "j", "f", "h">>, None >>,
     << <<"PLEAD">>, None >>,
     << <<" ", " ", " ", "D", "B", " ">>, None >>}

\* The strings parse_gain is called on.
GainStrings ==
    UNION {[1..n -> GainAlphabet] : n \in 0..MaxGainLen} \cup {t[1] : t \in GainTests}

GainInit ==
    /\ gain_pc = "call"
    /\ gain \in GainStrings
    /\ parsed = None

\* parse_gain(gain) returns.
ParseGainCall ==
    /\ gain_pc = "call"
    /\ parsed' = ParseGain(gain)
    /\ gain_pc' = "done"
    /\ UNCHANGED <<vars, songVars, hashVars, fetchVars, gain>>

GainNext == ParseGainCall

InitGain == LibraryInit /\ SongIdle /\ GainInit /\ HashIdle /\ FetchIdle

SpecGain == InitGain /\ [][GainNext]_<<vars, callVars>>

\* ================================================================ claims
\* The states of a call past its start, and past its collect.
Running == pc \in {"map", "insert", "ts", "ok"}
Collected == pc \in {"insert", "ts", "ok"}
Processed(e) == e \in DOMAIN results /\ results[e] # Pending

\* C1 (as claimed): in a run without force that follows a successful run's
\* recorded time T, index_song processes exactly the files modified at or
\* after T: a file is decoded when its modification time is >= T and
\* skipped when it is < T.
C1_IncrementalSkip ==
    [][\A e \in AudioEntries :
          (/\ pc = "map" /\ ~force /\ IsSome(sources[source])
           /\ e \in DOMAIN results /\ results[e] = Pending
           /\ results'[e] # Pending /\ files[e].exists)
          => ((results'[e] # OkNone) <=> (files[e].mtime >= indexed_ts))]_vars

\* C2 (as claimed): on a first run (no last-indexed timestamp stored) without
\* force, no file is skipped by the timestamp check.
C2_FirstRunSkipsNothing ==
    (pc = "map" /\ ~force /\ ~IsSome(pre_sources[source]))
    => \A e \in DOMAIN results : results[e] # OkNone

\* C3: with force, every audio file under the source root is processed,
\* whatever its modification time and the stored timestamp: every audio file
\* on disk is a candidate, no candidate is skipped, and a successful collect
\* holds one record per candidate, in walk order.
C3_ForceProcessesAll ==
    (Running /\ force) =>
        /\ \A e \in AudioEntries :
              (EntryInfo(e).root = SourcePath(source) /\ files[e].exists)
              => e \in Range(walk)
        /\ \A e \in DOMAIN results : results[e] # OkNone
        /\ Collected =>
              /\ Len(songs) = Len(walk)
              /\ \A i \in DOMAIN songs :
                    /\ songs[i].path = EntryInfo(walk[i]).path
                    /\ songs[i].filename = EntryInfo(walk[i]).filename

\* C3 witness: a forced run, after a run recorded a timestamp, collected the
\* records of a file modified before the cutoff and of one modified at it.
C3_Witness ==
    /\ force /\ Collected /\ IsSome(pre_sources[source])
    /\ \E e1, e2 \in Range(walk) :
          /\ files[e1].mtime < indexed_ts
          /\ files[e2].mtime >= indexed_ts
    /\ Len(songs) = 2

\* C4: when index_song returns an error for a candidate, the run returns an
\* error: it never reaches the insert, nothing is written to the library or
\* the sources table (the records of the other candidates included), and the
\* last-indexed timestamp keeps its value.
C4_FileErrorAbortsBatch ==
    (\E e \in DOMAIN results : results[e].st = "err") =>
        /\ pc \in {"map", "err"}
        /\ pc = "err" => failed_at = "map"
        /\ library = pre_library
        /\ sources = pre_sources
        /\ store_log = <<>>

\* C4 witness: a run failed on one candidate after another candidate had
\* produced a record.
C4_Witness ==
    /\ pc = "err" /\ failed_at = "map"
    /\ \E e1, e2 \in DOMAIN results :
          /\ results[e1].st = "err"
          /\ results[e2].st = "ok" /\ IsSome(results[e2].val)

\* C5 (as claimed): whenever index_source returns an error, whichever step
\* failed, the library and the last-indexed timestamps are what they were
\* before the run.
C5_ErrorLeavesStoreUnchanged ==
    pc = "err" => (library = pre_library /\ sources = pre_sources)

\* C5 (amended): whenever index_source returns an error, the last-indexed
\* timestamps are what they were before the run; the library is what it was
\* before the run when the failing step was the timestamp query, the per-file
\* processing or the insert, and holds the run's upserted records when the
\* failing step was the timestamp upsert.
C5_ErrorLeavesStoreUnchangedAmended ==
    pc = "err" =>
        /\ sources = pre_sources
        /\ failed_at \in {"read", "map", "insert"} => library = pre_library
        /\ failed_at = "ts" => library = InsertManyOnConflict(pre_library, songs)

\* C5 witness: the timestamp upsert failed after the insert had changed the
\* library.
C5_Witness ==
    pc = "err" /\ failed_at = "ts" /\ library # pre_library

\* C6: in every run the last-indexed timestamp is written at most once, as
\* the run's last statement, after the insert of the same run has succeeded
\* (nothing is executed for an empty list); a run that returns an error has
\* not written it.
C6_TimestampAfterUpsert ==
    /\ store_log \in {<<>>, <<"insert_many">>, <<"update_ts">>, <<"insert_many", "update_ts">>}
    /\ (sources # pre_sources) =>
          /\ pc = "ok"
          /\ store_log # <<>> /\ store_log[Len(store_log)] = "update_ts"
    /\ (store_log # <<>> /\ store_log[Len(store_log)] = "update_ts") =>
          /\ pc = "ok"
          /\ songs # <<>> => store_log = <<"insert_many", "update_ts">>
          /\ library = InsertManyOnConflict(pre_library, songs)
    /\ pc = "err" => (sources = pre_sources /\ failed_at # "")
    /\ (pc = "err" /\ failed_at \in {"read", "map", "insert"}) => store_log = <<>>

\* C6 witness: a run has inserted records and then written the timestamp.
C6_Witness ==
    pc = "ok" /\ store_log = <<"insert_many", "update_ts">> /\ sources # pre_sources

\* C7: in every reachable state of the library no two rows have the same
\* checksum (nor the same id), also after files with the same audio and
\* different paths were indexed.
C7_UniqueChecksum ==
    \A r1, r2 \in library : (r1.hash = r2.hash \/ r1.id = r2.id) => r1 = r2

\* C7 witness: one run inserted the records of two files with the same audio
\* and different filenames, and the library holds one row with that checksum.
C7_Witness ==
    /\ pc = "ok" /\ Len(songs) = 2
    /\ songs[1].hash = songs[2].hash
    /\ songs[1].filename # songs[2].filename
    /\ Cardinality({r \in library : r.hash = songs[1].hash}) = 1

\* The columns the upsert updates on a conflict, and those it keeps.
Updated(x) ==
    <<x.artist, x.album_artist, x.name, x.album, x.duration, x.genres, x.track,
      x.disc, x.year, x.rg_track_gain, x.rg_track_peak, x.rg_album_gain, x.rg_album_peak>>
Kept(x) == <<x.path, x.filename, x.source_id, x.hash>>
Hashes(rows) == {r.hash : r \in rows}
Inserted == "insert_many" \in Range(store_log)

\* C8: a file indexed again after its tags were changed and its audio packets
\* were not gets the same checksum (index_song's checksum is the same for
\* every tag set the file could carry); the insert of a record whose checksum
\* is already in the library adds no row for it, and the row with that
\* checksum takes the updated columns of the (last such) record.
C8_RetagKeepsChecksum ==
    [][/\ \A e \in AudioEntries :
             (/\ pc = "map" /\ e \in DOMAIN results /\ results[e] = Pending
              /\ results'[e].st = "ok" /\ IsSome(results'[e].val))
             => \A t \in TagIds :
                   LET again == IndexSong(e, [files[e] EXCEPT !.tags = t], source, TRUE, indexed_ts)
                   IN  /\ again.st = "ok" /\ IsSome(again.val)
                       /\ Unwrap(again.val).hash = Unwrap(results'[e].val).hash
       /\ (pc = "insert" /\ pc' = "ts") =>
             /\ Cardinality(library') =
                   Cardinality(library) + Cardinality(Hashes(Range(songs)) \ Hashes(library))
             /\ \A i \in DOMAIN songs :
                   (songs[i].hash \in Hashes(library)) =>
                      /\ Cardinality({r \in library' : r.hash = songs[i].hash}) = 1
                      /\ (\A j \in DOMAIN songs : j > i => songs[j].hash # songs[i].hash)
                         => \A r \in library' :
                               r.hash = songs[i].hash => Updated(r) = Updated(songs[i])
      ]_vars

\* C8 witness: file a was retagged and indexed again: the row with its
\* checksum is the row that was there before, with the new tag's artist, and
\* the library has not grown.
C8_Witness ==
    /\ pc = "ok" /\ files["a"].tags = "T2" /\ files["a"].exists
    /\ \E r \in library, r0 \in pre_library :
          /\ r.id = r0.id /\ r.hash = r0.hash
          /\ r0.artist = Tags("T1").artist
          /\ r.artist = Tags("T2").artist
    /\ Cardinality(library) = Cardinality(pre_library)

\* C9: a row whose checksum is upserted again keeps its id, checksum, path,
\* filename and source id (only the updated columns can differ), a row no
\* record matches is left as it was, and a new row has the path, filename and
\* source id of the first record of the statement with its checksum.
C9_ConflictKeepsIdentity ==
    /\ \A r0 \in pre_library :
          /\ \E r \in library : r.id = r0.id /\ Kept(r) = Kept(r0)
          /\ (r0.hash \notin Hashes(Range(songs)) \/ ~Inserted) => r0 \in library
    /\ Inserted =>
          \A i \in DOMAIN songs :
             (/\ songs[i].hash \notin Hashes(pre_library)
              /\ \A j \in DOMAIN songs : j < i => songs[j].hash # songs[i].hash)
             => \E r \in library : Kept(r) = Kept(songs[i])

\* C9 witness: a record with the checksum of an existing row and another
\* filename was upserted; the row keeps its filename and has the record's
\* updated columns.
C9_Witness ==
    /\ Inserted
    /\ \E r0 \in pre_library, r \in library, i \in DOMAIN songs :
          /\ (\A j \in DOMAIN songs : j > i => songs[j].hash # songs[i].hash)
          /\ songs[i].hash = r0.hash /\ songs[i].filename # r0.filename
          /\ r.id = r0.id /\ r.filename = r0.filename
          /\ Updated(r) = Updated(songs[i]) /\ Updated(r) # Updated(r0)

\* C10: a run that collects no record (no candidates, or every candidate
\* skipped) does not fail at the insert and leaves the library unchanged; it
\* goes on to the timestamp upsert, and when that statement succeeds the run
\* returns Ok with last_indexed set to the time of the run, not earlier than
\* the value before.
C10_EmptyRunAdvancesTimestamp ==
    (songs = <<>> /\ (Collected \/ (pc = "err" /\ failed_at \in {"insert", "ts"}))) =>
        /\ library = pre_library
        /\ "insert_many" \notin Range(store_log)
        /\ pc = "err" => failed_at = "ts"
        /\ pc = "ok" =>
              /\ store_log = <<"update_ts">>
              /\ IsSome(sources[source])
              /\ ParseI64(Unwrap(sources[source])) <= now
              /\ ParseI64(Unwrap(sources[source])) >= ParseI64(LastIndexed(pre_sources, source))
              /\ \A s \in SourceIds : s # source => sources[s] = pre_sources[s]

\* C10 witness: a run in which every candidate was skipped by the timestamp
\* check returned Ok and changed the stored timestamp.
C10_Witness ==
    /\ pc = "ok" /\ songs = <<>> /\ Len(walk) > 0
    /\ sources[source] # pre_sources[source]
    /\ library = pre_library
\* ------------------------------------------------- two checksums
\* Two hashers (two files' worth of bytes), each fed one byte sequence.
ByteValues == {0, 1, 2}
ByteSeqs == UNION {[1..n -> ByteValues] : n \in 0..MaxBytes}

HashInit ==
    /\ hash_pc = "write"
    /\ written \in ByteSeqs \X ByteSeqs
    /\ sums = <<0, 0>>

\* Adler32::new(), write(bytes) and finish() on each.
Checksum ==
    /\ hash_pc = "write"
    /\ sums' = <<AdlerFinish(AdlerWrite(AdlerNew, written[1])),
                 AdlerFinish(AdlerWrite(AdlerNew, written[2]))>>
    /\ hash_pc' = "done"
    /\ UNCHANGED <<vars, songVars, gainVars, fetchVars, written>>

HashNext == Checksum

InitHash == LibraryInit /\ SongIdle /\ GainIdle /\ HashInit /\ FetchIdle

SpecHash == InitHash /\ [][HashNext]_<<vars, callVars>>

\* ------------------------------------------ fetching::index_source
\* One call of fetching::index_source(source, mode, ctx) on a library that
\* earlier calls have filled.
IndexModes == {"Purge", "New", "Initial"}
SourceKinds == {"Local", "Remote"}

\* A row of the library with most columns empty.
FetchRow(id, path, filename, src, hash, artist) ==
    [id |-> id, path |-> path, filename |-> filename, source_id |-> src, hash |-> hash,
     artist |-> artist, album_artist |-> None, name |-> None, album |-> None,
     genres |-> None, track |-> None, disc |-> None, year |-> None, duration |-> 1000,
     rg_track_gain |-> None, rg_track_peak |-> None,
     rg_album_gain |-> None, rg_album_peak |-> None]

\* hash_file: the packets are written to a new hasher until next_packet
\* returns an error, whichever it is.
HashFile(audio) == AdlerFinish(HashPackets(AdlerNew, audio.packets))

\* The rows earlier calls can have left: a file of source 1 that has since
\* moved to another directory and changed, a file of source 2 with the audio
\* that two files of source 1 hold, and a file of source 1 that is gone.
FetchRows ==
    {FetchRow(1, "/m1/old", "b.flac", 1, 777, Some("old")),
     FetchRow(2, "/m2", "a.flac", 2, HashFile(Audio("A1")), Some("z")),
     FetchRow(3, "/m1", "gone.flac", 1, 888, Some("gone"))}

\* What a remote source can serve (library::Model rows of the server; the
\* server's id and source id are not used): records of new checksums, of a
\* checksum the library can hold, and two records of one checksum.  The
\* index holds at least one record.
RemoteIndexes ==
    {<<FetchRow(7, "/srv", "r.flac", 9, 555, Some("r"))>>,
     <<FetchRow(7, "/srv", "r.flac", 9, 555, Some("r")),
       FetchRow(8, "/srv", "s.flac", 9, HashFile(Audio("A1")), Some("s"))>>,
     <<FetchRow(7, "/srv", "r.flac", 9, 555, Some("r")),
       FetchRow(8, "/srv", "t.flac", 9, 555, Some("t"))>>}

\* The record the local branch builds for a file: no disc and no loudness
\* columns, a year of 0 is no year.
FetchSong(e, src, t, audio) ==
    [path |-> EntryInfo(e).path, filename |-> EntryInfo(e).filename,
     source_id |-> src, hash |-> HashFile(audio),
     artist |-> t.artist, album_artist |-> t.album_artist, name |-> t.title,
     album |-> t.album, genres |-> t.genre, track |-> t.track, disc |-> None,
     year |-> IF t.year = Some(0) THEN None ELSE t.year, duration |-> audio.duration.lo,
     rg_track_gain |-> None, rg_track_peak |-> None,
     rg_album_gain |-> None, rg_album_peak |-> None]

\* The record the remote branch builds from a served row: the local source
\* id, no disc and no loudness columns.
RemoteSong(v, src) ==
    [path |-> v.path, filename |-> v.filename, source_id |-> src, hash |-> v.hash,
     artist |-> v.artist, album_artist |-> v.album_artist, name |-> v.name,
     album |-> v.album, genres |-> v.genres, track |-> v.track, disc |-> None,
     year |-> v.year, duration |-> v.duration,
     rg_track_gain |-> None, rg_track_peak |-> None,
     rg_album_gain |-> None, rg_album_peak |-> None]

\* Mutant of Existing: the filenames of every source's rows.
ExistingOfAnySource(lib, src) == {r.filename : r \in lib}

\* The filenames of the source's rows (the query of mode New).
Existing(lib, src) == {r.filename : r \in {x \in lib : x.source_id = src}}

\* Mutant of InsertDoNothing: a row with the record's checksum is updated, as
\* indexing's upsert does.
InsertDoUpdate(lib, song) ==
    IF \E r \in lib : r.hash = song.hash
    THEN {IF r.hash = song.hash THEN UpdateRow(r, song) ELSE r : r \in lib}
    ELSE lib \cup {NewRow(lib, song)}

\* insert(song).on_conflict(column(Hash).do_nothing()): a record whose
\* checksum is in the table is dropped, as by the statement ON CONFLICT DO
\* NOTHING of the store.
InsertDoNothing(lib, song) ==
    IF \E r \in lib : r.hash = song.hash THEN lib ELSE lib \cup {NewRow(lib, song)}

\* insert_many(songs).on_conflict(..do_nothing()): the rows, in order.
RECURSIVE InsertManyDoNothing(_, _)
InsertManyDoNothing(lib, rows) ==
    IF rows = <<>> THEN lib
    ELSE InsertManyDoNothing(InsertDoNothing(lib, Head(rows)), Tail(rows))

\* What a step of the call leaves alone: everything of the indexing call
\* and the files.
fetchFrame == <<now, files, sources, pc, source, force, indexed_ts, walk, results, songs,
                store_log, failed_at, pre_library, pre_sources, nruns, nedits,
                songVars, gainVars, hashVars>>

FetchInit ==
    /\ now = 1
    /\ files = [e \in AudioEntries |->
                  [exists |-> TRUE, mtime |-> 1,
                   audio |-> IF e = "c" THEN "A2" ELSE "A1",
                   tags |-> IF e = "a" THEN "T1" ELSE "T2"]]
    /\ library \in SUBSET FetchRows
    /\ pre_library = library
    /\ sources = [s \in SourceIds |-> None]
    /\ pc = "idle"
    /\ source \in SourceIds
    /\ force = FALSE
    /\ indexed_ts = 0
    /\ walk = <<>>
    /\ results = <<>>
    /\ songs = <<>>
    /\ store_log = <<>>
    /\ failed_at = ""
    /\ pre_sources = [s \in SourceIds |-> None]
    /\ nruns = 0
    /\ nedits = 0
    /\ fetch_pc = "start"
    /\ mode \in IndexModes
    /\ kind \in SourceKinds
    /\ existing = {}
    /\ todo = <<>>
    /\ read = <<>>
    /\ remote \in RemoteIndexes

\* Mutant of FetchStart: the purge has no filter on the source.
FetchStartPurgesAll ==
    /\ fetch_pc = "start"
    /\ library' = IF mode = "Purge" THEN {} ELSE library
    /\ existing' = IF mode = "New" THEN Existing(library, source) ELSE {}
    /\ IF kind = "Local"
       THEN /\ \E w \in Walks(source) : todo' = SelectSeq(w, IsAudioFile)
            /\ fetch_pc' = "walk"
       ELSE /\ todo' = <<>>
            /\ fetch_pc' = "remote"
    /\ UNCHANGED <<fetchFrame, mode, kind, read, remote>>

\* The first statement: the source's rows are deleted (Purge), or their
\* filenames are read (New); then the branch of the source's kind begins,
\* for a local source with the walk of its root.
FetchStart ==
    /\ fetch_pc = "start"
    /\ library' = IF mode = "Purge" THEN {r \in library : r.source_id # source} ELSE library
    /\ existing' = IF mode = "New" THEN Existing(library, source) ELSE {}
    /\ IF kind = "Local"
       THEN /\ \E w \in Walks(source) : todo' = SelectSeq(w, IsAudioFile)
            /\ fetch_pc' = "walk"
       ELSE /\ todo' = <<>>
            /\ fetch_pc' = "remote"
    /\ UNCHANGED <<fetchFrame, mode, kind, read, remote>>

\* The delete or the query fails: the call returns the error.
FetchStartFail ==
    /\ fetch_pc = "start"
    /\ mode \in {"Purge", "New"}
    /\ fetch_pc' = "err"
    /\ UNCHANGED <<fetchFrame, library, mode, kind, existing, todo, read, remote>>

\* The file the loop is at is one mode New leaves out.
Skipped(e) == mode = "New" /\ EntryInfo(e).filename \in existing

\* Mode New: the file's name is among the existing ones, the loop goes on.
FetchSkip ==
    /\ fetch_pc = "walk"
    /\ todo # <<>>
    /\ Skipped(Head(todo))
    /\ todo' = Tail(todo)
    /\ UNCHANGED <<fetchFrame, library, fetch_pc, mode, kind, existing, read, remote>>

\* The file is read and hashed and its record inserted; a duration that
\* does not fit the column is an error.
FetchFile ==
    /\ fetch_pc = "walk"
    /\ todo # <<>>
    /\ ~Skipped(Head(todo))
    /\ LET e == Head(todo)
           audio == Audio(files[e].audio)
       IN  /\ read' = Append(read, e)
           /\ IF FitsU32(HashFile(audio)) /\ FitsI32(audio.duration)
              THEN /\ library' = InsertDoNothing(library,
                                                 FetchSong(e, source, Tags(files[e].tags), audio))
                   /\ todo' = Tail(todo)
                   /\ UNCHANGED fetch_pc
              ELSE /\ fetch_pc' = "err"
                   /\ UNCHANGED <<library, todo>>
    /\ UNCHANGED <<fetchFrame, mode, kind, existing, remote>>

\* Mutant of FetchFileFail: the call runs in a transaction that the error
\* rolls back.
FetchFileFailRollsBack ==
    /\ fetch_pc = "walk"
    /\ todo # <<>>
    /\ ~Skipped(Head(todo))
    /\ library' = pre_library
    /\ fetch_pc' = "err"
    /\ UNCHANGED <<fetchFrame, mode, kind, existing, todo, read, remote>>

\* The file cannot be read (read_from_path or hash_file fails): the call
\* returns the error.
FetchFileFail ==
    /\ fetch_pc = "walk"
    /\ todo # <<>>
    /\ ~Skipped(Head(todo))
    /\ fetch_pc' = "err"
    /\ UNCHANGED <<fetchFrame, library, mode, kind, existing, todo, read, remote>>

\* The walk is at its end: the call returns Ok.
FetchDone ==
    /\ fetch_pc = "walk"
    /\ todo = <<>>
    /\ fetch_pc' = "ok"
    /\ UNCHANGED <<fetchFrame, library, mode, kind, existing, todo, read, remote>>

\* The remote branch: the served index is parsed and its records are
\* inserted in one statement.
FetchRemote ==
    /\ fetch_pc = "remote"
    /\ library' = InsertManyDoNothing(library,
                                      [i \in DOMAIN remote |-> RemoteSong(remote[i], source)])
    /\ fetch_pc' = "ok"
    /\ UNCHANGED <<fetchFrame, mode, kind, existing, todo, read, remote>>

\* No credentials, a failed request or an index that does not parse: the
\* call returns the error.
FetchRemoteFail ==
    /\ fetch_pc = "remote"
    /\ fetch_pc' = "err"
    /\ UNCHANGED <<fetchFrame, library, mode, kind, existing, todo, read, remote>>

FetchNext ==
    \/ FetchStart
    \/ FetchStartFail
    \/ FetchSkip
    \/ FetchFile
    \/ FetchFileFail
    \/ FetchDone
    \/ FetchRemote
    \/ FetchRemoteFail

InitFetch == SongIdle /\ GainIdle /\ HashIdle /\ FetchInit

SpecFetch == InitFetch /\ [][FetchNext]_<<vars, callVars>>

\* ---------------------------------------------------- claims C11 to C14, C20
\* The tags give the track loudness: both track values are there and parse.
TrackTagsParse(t) == IsSome(TagGain(t.rg_track_gain)) /\ IsSome(TagGain(t.rg_track_peak))
\* The record index_song returned.
Record == Unwrap(song_out.val)
Indexed == song_pc = "done" /\ song_out.st = "ok" /\ IsSome(song_out.val)

\* C11 (as stated): a file whose loudness state ends as Failed is still
\* indexed: index_song returns a record that carries the checksum of all the
\* file's packets.
C11_FailedLoudnessStillIndexed ==
    (song_pc = "done" /\ iter.rg.st = "Failed") =>
        /\ Indexed
        /\ Record.hash = AdlerFinish(HashPackets(AdlerNew, Audio(song_audio).packets))

\* C12: when the track gain and the track peak of the tags both parse, the
\* loudness state is Finished with the parsed values from its construction
\* on, no accumulator exists and none takes a packet, and the record carries
\* the parsed values.
C12_TagsGiveLoudness ==
    LET t == Tags(song_tags)
    IN  TrackTagsParse(t) =>
          /\ song_pc \in {"loop", "done"} =>
                /\ iter.rg.st = "Finished"
                /\ iter.rg.data = <<>> /\ iter.rg.sample_buf = None
                /\ iter.rg.res.track_gain = Unwrap(TagGain(t.rg_track_gain))
                /\ iter.rg.res.track_peak = Unwrap(TagGain(t.rg_track_peak))
          /\ Indexed =>
                /\ Record.rg_track_gain = TagGain(t.rg_track_gain)
                /\ Record.rg_track_peak = TagGain(t.rg_track_peak)
                /\ song_tags = "T2" =>
                      /\ Record.rg_track_gain = Some(Decimal(-897, 2))
                      /\ Record.rg_track_peak = Some(Decimal(93, 2))

\* A stereo file of unusual sample rate that carries both track values has
\* been read to the end and indexed.
C12_Witness ==
    /\ Indexed /\ song_tags = "T2" /\ song_audio = "R1"
    /\ iter.pos = 2
    /\ Record.rg_track_gain = Some(Decimal(-897, 2))

\* C13 (as stated): the record carries an album gain (peak) exactly when the
\* tags carry one that parses, and it is the tag's value, wherever the track
\* loudness came from.
C13_AlbumValuesFromTags ==
    Indexed =>
        /\ Record.rg_album_gain = TagGain(Tags(song_tags).rg_album_gain)
        /\ Record.rg_album_peak = TagGain(Tags(song_tags).rg_album_peak)

\* What C14 tells apart: the channel count, the sample rate.
Returned == song_pc \in {"done", "new failed"}
NotStereo(audio) == ~(IsSome(audio.channels) /\ Unwrap(audio.channels) = 2)
RateUnknown(audio) == audio.sample_rate = None
RateUnsupported(audio) == IsSome(audio.sample_rate) /\ ~RateSupported(Unwrap(audio.sample_rate))

\* C14 (as stated): processing fails when the track is not stereo and when
\* the sample rate is unknown or unsupported, whatever the tags.
C14_GatingWhateverTheTags ==
    LET audio == Audio(song_audio)
    IN  (Returned /\ (NotStereo(audio) \/ RateUnknown(audio) \/ RateUnsupported(audio)))
            => song_out.st = "err"

\* C14 (amended): a track that is not stereo and an unknown sample rate fail
\* the construction with the same error whatever the tags; a known sample
\* rate the loudness algorithm does not support fails the file exactly when
\* the tags do not give the track loudness.
C14_GatingAmended ==
    LET audio == Audio(song_audio)
        t == Tags(song_tags)
    IN  (Returned /\ audio.default_track) =>
          /\ NotStereo(audio) => song_pc = "new failed" /\ song_out = Err("channels")
          /\ (~NotStereo(audio) /\ RateUnknown(audio)) =>
                song_pc = "new failed" /\ song_out = Err("sample rate")
          /\ (~NotStereo(audio) /\ RateUnsupported(audio)) =>
                /\ song_pc = "done"
                /\ TrackTagsParse(t) => Indexed
                /\ ~TrackTagsParse(t) => song_out = Err("unsupported sample rate")

\* A stereo file of unusual sample rate with both track values (and no album
\* values) has been indexed.
C14_Witness ==
    /\ Indexed /\ song_audio = "R1" /\ song_tags = "T5"
    /\ Record.rg_album_gain = None

\* C20: a duration that does not fit the duration column makes index_song
\* return a conversion error and no record; a checksum always fits; a record
\* returned holds the duration and the checksum unchanged.
C20_CheckedConversions ==
    LET audio == Audio(song_audio)
        out == ProcessEnd(iter)
    IN  song_pc = "done" =>
          /\ (out.rg.ok /\ audio.duration.hi # 0) =>
                song_out.st = "err" /\ song_out.err = "cast duration" /\ song_out.val = None
          /\ Indexed =>
                /\ Millis(0, Record.duration) = audio.duration
                /\ Record.hash = out.hash
                /\ Record.hash \div 65536 <= 65535

\* The file too long for the column has been read to the end and refused.
C20_Witness ==
    /\ song_pc = "done" /\ song_audio = "L1"
    /\ iter.pos = 2
    /\ song_out = Err("cast duration")

\* ------------------------------------------------------ claims C15 and C16
\* C15 (as stated): an entry that cannot be read or stat'ed never makes a run
\* fail: no run fails in its map step on a file that is gone.
C15_BadEntryNeverFailsRun ==
    (pc = "err" /\ failed_at = "map") =>
        \A e \in DOMAIN results : results[e].err \notin {"metadata", "read"}

\* C16: no step of a run removes a row of the library: every row is there
\* after the step, with its id and its checksum.
C16_NoRecordRemoved ==
    [][\A r \in library : \E q \in library' : q.id = r.id /\ q.hash = r.hash]_vars

\* A run on source 1 has ended well after a.flac, which a row describes, was
\* deleted: the walk did not meet the file and the row is still there.
C16_Witness ==
    /\ pc = "ok" /\ source = 1 /\ nruns = 2
    /\ ~files["a"].exists
    /\ "a" \notin Range(walk) /\ "b" \in Range(walk)
    /\ Inserted
    /\ \E r \in library : r.source_id = 1 /\ r.filename = "a.flac"

\* ------------------------------------------------------ claims C17 to C19
Letters ==
    {"a", "b", "c", "d", "e", "f", "g", "h", "i", "j", "k", "l", "m", "n", "o", "p", "q",
     "r", "s", "t", "u", "v", "w", "x", "y", "z", "B", "D"}
IsPadding(c) == c \in Letters \cup {" "}
\* Text that holds no numeric character, no sign and no dot.
IsPlain(c) == c \notin Digits \cup {"SUP2", "-", "+", "."}

\* The string without the longest prefix and suffix of characters of a kind.
Between(str, Kind(_)) ==
    LET idx == {i \in DOMAIN str : ~Kind(str[i])}
        lo == CHOOSE i \in idx : \A j \in idx : i <= j
        hi == CHOOSE i \in idx : \A j \in idx : j <= i
    IN  IF idx = {} THEN <<>> ELSE SubSeq(str, lo, hi)

\* The substrings that are decimal numbers, as values.
NumbersIn(str) ==
    {ParseF32(SubSeq(str, i, j)) : i, j \in DOMAIN str} \ {None}

\* C17: parse_gain returns the number of a string made of one optionally
\* signed decimal number with letters and whitespace around it; on the inputs
\* of the unit tests it returns the values the tests expect.
C17_NumberAmongLetters ==
    gain_pc = "done" =>
        /\ \A t \in GainTests : (t[1] = gain /\ IsSome(t[2])) => parsed = t[2]
        /\ LET number == Between(gain, IsPadding)
           IN  IsSome(ParseF32(number)) => parsed = ParseF32(number)

\* parse_gain("-8.97 dB") has returned -8.97.
C17_Witness ==
    /\ gain_pc = "done"
    /\ gain = <<"-", "8", ".", "9", "7", " ", "d", "B">>
    /\ parsed = Some(Decimal(-897, 2))

\* C18: parse_gain returns an error for every string without a digit.
C18_NoDigitIsError ==
    (gain_pc = "done" /\ \A i \in DOMAIN gain : gain[i] \notin Digits) => parsed = None

\* parse_gain("   DB ") has returned an error.
C18_Witness ==
    /\ gain_pc = "done"
    /\ gain = <<" ", " ", " ", "D", "B", " ">>
    /\ parsed = None

\* C19 (as stated): parse_gain succeeds on every string that holds a decimal
\* number, whatever the text around it, and returns a number the string
\* holds.
C19_AnySurroundingText ==
    (gain_pc = "done" /\ NumbersIn(gain) # {}) =>
        IsSome(parsed) /\ parsed \in NumbersIn(gain)

\* C19 (amended): parse_gain returns the number of a string made of one
\* decimal number with text around it that holds no numeric character, no
\* sign and no dot; it fails on "1-5", which holds numbers.
C19_PlainSurroundingText ==
    gain_pc = "done" =>
        /\ LET number == Between(gain, IsPlain)
           IN  IsSome(ParseF32(number)) => parsed = ParseF32(number)
        /\ gain = <<"1", "-", "5">> => parsed = None

\* parse_gain(":-1 ") has returned -1.
C19_Witness ==
    /\ gain_pc = "done"
    /\ gain = <<":", "-", "1", " ">>
    /\ parsed = Some(Decimal(-1, 0))

\* -------------------------------------------------------------- claim C21
\* One sequence is the other with its bytes in another order.
IsReordering(x, y) ==
    /\ x # y /\ Len(x) = Len(y)
    /\ \A v \in ByteValues :
          Cardinality({i \in DOMAIN x : x[i] = v}) = Cardinality({i \in DOMAIN y : y[i] = v})
\* One sequence is the other cut short.
IsTruncation(x, y) == Len(x) < Len(y) /\ x = SubSeq(y, 1, Len(x))
\* One sequence is the other with two neighbours, different bytes, exchanged.
IsNeighbourSwap(x, y) ==
    /\ Len(x) = Len(y)
    /\ \E i \in 1..(Len(x) - 1) :
          /\ x[i] # x[i + 1]
          /\ y = [x EXCEPT ![i] = x[i + 1], ![i + 1] = x[i]]

\* C21 (as stated): a reordering and a truncation of a byte sequence never
\* have the checksum of the sequence.
C21_ReorderingOrTruncationDiffers ==
    (hash_pc = "done"
       /\ (IsReordering(written[1], written[2]) \/ IsTruncation(written[1], written[2])))
      => sums[1] # sums[2]

\* C21 (amended): a truncation of a sequence of fewer than 257 bytes and the
\* exchange of two neighbouring different bytes change the checksum; other
\* reorderings need not (2,0,1 and 1,2,0), nor does cutting a zero byte off
\* a sequence whose first sum is 0 (256 bytes of 255 and one of 240 make it
\* 0, and a zero byte then leaves both sums as they are).
C21_TruncationOrSwapDiffers ==
    /\ (hash_pc = "done"
          /\ (IsNeighbourSwap(written[1], written[2]) \/ IsTruncation(written[1], written[2])))
         => sums[1] # sums[2]
    /\ (hash_pc = "done" /\ written = << <<2, 0, 1>>, <<1, 2, 0>> >>) => sums[1] = sums[2]
    /\ (AdlerNew.a + 256 * 255 + 240) % AdlerMod = 0
    /\ \A b \in {0, 1, AdlerMod - 1} :
          AdlerByte([a |-> 0, b |-> b], 0) = [a |-> 0, b |-> b]

\* The checksums of 1,2 and of 2,1 have been computed and differ.
C21_Witness ==
    /\ hash_pc = "done"
    /\ written = << <<1, 2>>, <<2, 1>> >>
    /\ sums[1] # sums[2]

\* ---------------------------------------------------------- claim C22
\* What a worker has made of entry e: a record.
RecordOf(res, e) == e \in DOMAIN res /\ res[e].st = "ok" /\ IsSome(res[e].val)

\* C22: the checksum of the record a worker builds for a file is the
\* checksum, from a new hasher, of that file's packets in stream order: the
\* same for every file of the same packets, whichever files the pool has
\* processed before it, is still to process or has failed on, and whatever
\* the tags of the file are.
C22_ChecksumOfOwnPackets ==
    [][\A e \in AudioEntries :
          (pc = "map" /\ e \in DOMAIN results /\ results[e] = Pending /\ RecordOf(results', e))
          => /\ Unwrap(results'[e].val).hash
                   = AdlerFinish(HashPackets([a |-> 1, b |-> 0], Audio(files[e].audio).packets))
             /\ \A t \in TagIds, o \in AudioEntries :
                   LET twice == IndexSong(o, [files[e] EXCEPT !.tags = t], source, TRUE, indexed_ts)
                   IN  twice.st = "ok" /\ IsSome(twice.val)
                       /\ Unwrap(twice.val).hash = Unwrap(results'[e].val).hash
      ]_vars

\* C22 witness: a and b hold the same packets under different tags; b was
\* processed and then a, and the two records have the same checksum.
C22_Witness ==
    /\ pc = "map"
    /\ RecordOf(results, "a") /\ RecordOf(results, "b")
    /\ files["a"].audio = files["b"].audio /\ files["a"].tags # files["b"].tags
    /\ Unwrap(results["a"].val).hash = Unwrap(results["b"].val).hash
    /\ Unwrap(results["a"].val).artist # Unwrap(results["b"].val).artist

\* ---------------------------------------------------- claims C23 to C28
\* The packets of the file of the call, those read so far, and those of them
\* that belong to the selected (default) track.
SongPackets == Audio(song_audio).packets
ReadSoFar(it) == SubSeq(SongPackets, 1, it.pos)
OfSelectedTrack(packet) == packet.track_id = Audio(song_audio).track_id
IsPrefix(x, y) == Len(x) <= Len(y) /\ SubSeq(y, 1, Len(x)) = x

\* C23: at every step of process the hasher holds the checksum of the
\* packets read so far, each written once and in stream order, and at the
\* end every packet of the stream has been read; the packets the
\* accumulator's decoder has been given are packets of the selected track,
\* in stream order and none twice; while the state is Computing they are
\* all the packets of the selected track read so far, and a turn of the loop
\* gives the decoder a packet only when the state is Computing and the
\* packet is of the selected track.
C23_EveryPacketOnce ==
    [][(song_pc' \in {"loop", "done"}) =>
          /\ iter'.hash = HashPackets([a |-> 1, b |-> 0], ReadSoFar(iter'))
          /\ song_pc' = "done" => iter'.pos = Len(SongPackets)
          /\ IsPrefix(iter'.rg.decoder, SelectSeq(ReadSoFar(iter'), OfSelectedTrack))
          /\ iter'.rg.st = "Computing"
                => iter'.rg.decoder = SelectSeq(ReadSoFar(iter'), OfSelectedTrack)
          /\ iter'.rg.st = "Finished" => iter'.rg.decoder = <<>>
          /\ (song_pc = "loop" /\ iter'.rg.decoder # iter.rg.decoder)
                => /\ iter.rg.st = "Computing"
                   /\ iter'.pos = iter.pos + 1
                   /\ OfSelectedTrack(SongPackets[iter'.pos])
                   /\ iter'.rg.decoder = Append(iter.rg.decoder, SongPackets[iter'.pos])
      ]_<<vars, callVars>>

\* C23 witness: a stream of three packets, the second of another track, is
\* at its end: the three are in the checksum, the first and the third have
\* gone to the decoder.
C23_Witness ==
    /\ song_pc = "done" /\ song_audio = "S2" /\ song_tags = "T1"
    /\ iter.pos = 3
    /\ iter.hash = AdlerWrite(AdlerWrite(AdlerWrite(AdlerNew, <<1, 2>>), <<5>>), <<3>>)
    /\ iter.rg.st = "Computing"
    /\ iter.rg.decoder = <<SongPackets[1], SongPackets[3]>>

\* What the decoder can make of a packet, and the stream with packet i
\* decoding as d instead.
DecodeOutcomes == {"ok", "corrupt", "io"}
WithDecode(audio, i, d) == [audio EXCEPT !.packets[i].decode = d]

\* C24: process returns the checksum of all the packets of the stream
\* whatever the loudness state has become, and the checksum is the same for
\* every tag set (Finished or not) and for every decode outcome of every
\* packet (Computing to the end, or Failed at that packet).
C24_ChecksumWhateverTheLoudness ==
    song_pc = "done" =>
       LET audio == Audio(song_audio)
           expected == AdlerFinish(HashPackets(AdlerNew, audio.packets))
       IN  /\ ProcessEnd(iter).hash = expected
           /\ \A t \in AllTagIds :
                 LET other == ProcessPackets(audio, ReplayGainFromTags(Tags(t)))
                 IN  other.ok /\ other.hash = expected
           /\ \A t \in AllTagIds, i \in DOMAIN audio.packets, d \in DecodeOutcomes :
                 LET other == ProcessPackets(WithDecode(audio, i, d), ReplayGainFromTags(Tags(t)))
                 IN  other.ok /\ other.hash = expected

\* C24 witness: the decoder failed on the second of three packets and the
\* state is Failed; process returns the checksum the same file gives when
\* its tags hold the loudness, which is no error's checksum.
C24_Witness ==
    /\ song_pc = "done" /\ song_audio = "E2" /\ song_tags = "T1"
    /\ iter.rg.st = "Failed" /\ iter.pos = 3
    /\ ProcessEnd(iter).hash = ProcessPackets(Audio("E2"), ReplayGainFromTags(Tags("T2"))).hash
    /\ ProcessPackets(Audio("E2"), ReplayGainFromTags(Tags("T2"))).rg.ok
    /\ ProcessEnd(iter).hash # AdlerFinish(AdlerWrite(AdlerNew, <<1, 2, 4>>))

\* A turn of process's loop, and the packet it reads.
LoopTurn == song_pc = "loop" /\ song_pc' = "loop" /\ iter'.pos = iter.pos + 1
TurnPacket == SongPackets[iter.pos + 1]

\* C25: in a turn of the loop a Finished and a Failed state stay as they are
\* (no packet reaches the decoder), the state changes only from Computing to
\* Failed, and a Computing state becomes Failed exactly when the packet is
\* of the selected track and the decoder fails on it with an error that is
\* no DecodeError; the end of the stream leaves the state as it is.
C25_OnlyComputingToFailed ==
    [][/\ LoopTurn =>
            /\ iter.rg.st \in {"Finished", "Failed"} => iter'.rg = iter.rg
            /\ iter'.rg.st # iter.rg.st => iter.rg.st = "Computing" /\ iter'.rg.st = "Failed"
            /\ iter.rg.st = "Computing" =>
                  (iter'.rg.st = "Failed" <=> (OfSelectedTrack(TurnPacket) /\ TurnPacket.decode = "io"))
       /\ (song_pc = "loop" /\ song_pc' = "done") => iter'.rg = iter.rg
      ]_<<vars, callVars>>

\* C25 witness: the decoder failed on the second packet; the third has been
\* read, the state is Failed and the decoder has seen two packets.
C25_Witness ==
    /\ song_pc = "loop" /\ song_audio = "E2" /\ song_tags = "T1"
    /\ iter.pos = 3 /\ iter.rg.st = "Failed" /\ iter.rg.err = "decode"
    /\ Len(iter.rg.decoder) = 2

\* C26: when the stream ends in UnexpectedEof the loop ends with no error
\* kept and the outcome follows the loudness state: the tags' values for
\* Finished, the accumulator's finish for Computing, the state's error for
\* Failed; when it ends in another error the loop ends there, with as many
\* packets read as came before the error, and that error is the outcome of
\* process and of index_song, whatever the loudness state is.
C26_EndOfStreamOrError ==
    song_pc = "done" =>
       LET audio == Audio(song_audio)
           out == ProcessEnd(iter)
       IN  /\ iter.pos = Len(audio.packets)
           /\ audio.stream_end = "eof" =>
                 /\ iter.error = None
                 /\ iter.rg.st = "Finished" =>
                       /\ out.rg = RgOk(Unwrap(ReplayGainFromTags(Tags(song_tags))))
                       /\ song_out.st = "err" => song_out.err \in {"cast hash", "cast duration"}
                 /\ iter.rg.st = "Computing" =>
                       /\ out.rg = ReplayGainFinish(iter.rg)
                       /\ ~out.rg.ok => song_out = Err(out.rg.err)
                 /\ iter.rg.st = "Failed" =>
                       /\ out.rg = RgErr(iter.rg.err)
                       /\ song_out = Err(iter.rg.err)
           /\ audio.stream_end # "eof" =>
                 /\ iter.error = Some(audio.stream_end)
                 /\ out.rg = RgErr(audio.stream_end)
                 /\ song_out = Err(audio.stream_end)

\* C26 witness: the tags hold the loudness and the stream ends in an error
\* after two packets: the state is Finished and index_song returns the
\* stream's error.
C26_Witness ==
    /\ song_pc = "done" /\ song_audio = "X1" /\ song_tags = "T2"
    /\ iter.rg.st = "Finished" /\ iter.pos = 2
    /\ iter.error = Some("reset")
    /\ song_out = Err("reset")

\* C27 (as stated): in a turn of the loop on a packet of the selected track
\* in the Computing state, a packet the decoder rejects with a DecodeError
\* leaves the accumulated samples as they are and the state Computing; a
\* packet it fails on otherwise makes the state Failed; and in the Failed
\* state no turn accumulates anything.
C27_CorruptPacketAddsNothing ==
    [][LoopTurn =>
          /\ (iter.rg.st = "Computing" /\ OfSelectedTrack(TurnPacket) /\ TurnPacket.decode = "corrupt")
                => iter'.rg.st = "Computing" /\ iter'.rg.data = iter.rg.data
          /\ (iter.rg.st = "Computing" /\ OfSelectedTrack(TurnPacket) /\ TurnPacket.decode = "io")
                => iter'.rg.st = "Failed"
          /\ iter.rg.st = "Failed" => iter'.rg = iter.rg
      ]_<<vars, callVars>>

\* A packet that gives the accumulator samples: of the selected track and
\* decoded.
GivesSamples(packet) ==
    OfSelectedTrack(packet) /\ packet.decode = "ok" /\ packet.samples # <<>>

\* C28: at the end of a stream whose state is still Computing, finish
\* returns an error exactly when no packet of the stream gave samples (all of
\* another track, all rejected by the decoder, or no packet at all), and
\* index_song then returns that error; otherwise finish returns a track gain
\* and a track peak, and no album values.
C28_FinishFailsOnNoSamples ==
    (song_pc = "done" /\ iter.rg.st = "Computing") =>
       LET out == ReplayGainFinish(iter.rg)
       IN  /\ ~out.ok <=> \A i \in DOMAIN SongPackets : ~GivesSamples(SongPackets[i])
           /\ ~out.ok <=> iter.rg.data = <<>>
           /\ (~out.ok /\ iter.error = None) => song_out = Err("no samples")
           /\ out.ok => /\ out.res.track_gain = Decimal(-SumSeq(iter.rg.data), 2)
                        /\ out.res.track_peak = Decimal(MaxSeq(iter.rg.data), 2)
                        /\ out.res.album_gain = None /\ out.res.album_peak = None

\* C28 witness: the decoder rejected both packets of the stream as corrupt:
\* the state is Computing at the end, nothing was accumulated and index_song
\* returns finish's error.
C28_Witness ==
    /\ song_pc = "done" /\ song_audio = "E3" /\ song_tags = "T1"
    /\ iter.rg.st = "Computing" /\ iter.pos = 2
    /\ Len(iter.rg.decoder) = 2 /\ iter.rg.data = <<>>
    /\ song_out = Err("no samples")

\* ------------------------------------------------------ claims C29 and C30
\* A step that writes to the store: a statement is logged, or the library or
\* the sources table changes.
StoreWrite ==
    \/ library' # library
    \/ sources' # sources
    \/ Len(store_log') > Len(store_log)
\* A step of a worker: a candidate of the run gets its result.
WorkerStep == pc = "map" /\ \E e \in DOMAIN results : results[e] = Pending /\ results'[e] # Pending

\* C29: a step that writes to the store is a step of the insert or of the
\* timestamp update of a run all of whose candidates have their result, and
\* all of them a good one; a step of a worker writes nothing to the store.
C29_WritesAfterTheMap ==
    [][/\ StoreWrite => /\ pc \in {"insert", "ts"}
                        /\ \A e \in DOMAIN results : results[e].st = "ok"
                        /\ DOMAIN results = Range(walk)
       /\ WorkerStep => ~StoreWrite /\ store_log' = store_log
      ]_vars

\* C29 witness: a run over two candidates has written its records and the
\* timestamp, after both workers' results were there.
C29_Witness ==
    /\ pc = "ok" /\ store_log = <<"insert_many", "update_ts">>
    /\ Len(walk) = 2 /\ \A e \in Range(walk) : RecordOf(results, e)
    /\ library # pre_library /\ sources # pre_sources

\* The places of the walk whose candidate gave a record, the record, and the
\* first and the last place of a checksum.
Recs == {i \in DOMAIN walk : RecordOf(results, walk[i])}
SongAt(i) == Unwrap(results[walk[i]].val)
FirstOf(h) == CHOOSE i \in Recs : SongAt(i).hash = h /\ \A j \in Recs : SongAt(j).hash = h => i <= j
LastOf(h) == CHOOSE i \in Recs : SongAt(i).hash = h /\ \A j \in Recs : SongAt(j).hash = h => j <= i
\* The columns of a row without its id.
Cols(x) == <<Kept(x), Updated(x)>>
\* The catalog the walk and the workers' results determine: the rows of
\* other checksums stay; a row of a checksum of the run keeps its path,
\* filename and source (for a new row, those of the first candidate in walk
\* order) and has the other columns of the last candidate in walk order.
Catalog ==
    {Cols(r) : r \in {x \in pre_library : \A i \in Recs : SongAt(i).hash # x.hash}}
    \cup {<<IF \E x \in pre_library : x.hash = SongAt(i).hash
            THEN Kept(CHOOSE x \in pre_library : x.hash = SongAt(i).hash)
            ELSE Kept(SongAt(FirstOf(SongAt(i).hash))),
            Updated(SongAt(LastOf(SongAt(i).hash)))>> : i \in Recs}

\* C30: a worker's result for a file is index_song of that file alone,
\* whatever the other workers have done, and the insert leaves the catalog
\* that the walk order and the results determine, one row for a checksum:
\* the order in which the workers took the files has no part in it, also
\* when two candidates have one checksum and different tags and paths.
C30_CatalogWhateverTheWorkersOrder ==
    [][/\ \A e \in AudioEntries :
             (pc = "map" /\ e \in DOMAIN results /\ results[e] = Pending /\ results'[e] # Pending)
             => /\ results'[e] = IndexSong(e, files[e], source, force, indexed_ts)
                /\ \A o \in DOMAIN results \ {e} : results'[o] = results[o]
       /\ (pc = "insert" /\ pc' = "ts")
             => /\ {Cols(r) : r \in library'} = Catalog
                /\ Cardinality(library') = Cardinality(Catalog)
                /\ Cardinality(Hashes(library')) = Cardinality(library')
      ]_vars

\* C30 witness: a.flac and b.flac have one checksum and different tags; the
\* walk gave a before b, the workers took b before or after a, and the one
\* row of the checksum has a's path and b's tags.
C30_Witness ==
    /\ pc = "ok" /\ Inserted /\ walk = <<"a", "b">>
    /\ SongAt(1).hash = SongAt(2).hash /\ SongAt(1).artist # SongAt(2).artist
    /\ Cardinality(library) = 1
    /\ \A r \in library : r.filename = "a.flac" /\ r.artist = SongAt(2).artist

\* ---------------------------------------------------------- claim C31
\* Adler-32 in closed form: from sums a and b, n bytes add their sum to a
\* and, to b, n times the old a and each byte as often as bytes follow it,
\* itself included; both modulo 65521.
RECURSIVE Weighted(_)
Weighted(bytes) ==
    IF bytes = <<>> THEN 0 ELSE Len(bytes) * Head(bytes) + Weighted(Tail(bytes))
Adler32From(st, bytes) ==
    [a |-> (st.a + SumSeq(bytes)) % 65521,
     b |-> (st.b + Len(bytes) * st.a + Weighted(bytes)) % 65521]
\* Sums next to the modulus, where the next byte wraps them.
NearWrap == {[a |-> 65520, b |-> 65520], [a |-> 65519, b |-> 65000], [a |-> 0, b |-> 65520]}
\* The bytes cut into three packets after the first i and the first j bytes.
CutAt(bytes, i, j) ==
    <<Packet(0, SubSeq(bytes, 1, i), "ok", <<>>),
      Packet(0, SubSeq(bytes, i + 1, j), "ok", <<>>),
      Packet(0, SubSeq(bytes, j + 1, Len(bytes)), "ok", <<>>)>>

\* C31: the checksum of bytes written to a new hasher is their Adler-32
\* (a from 1, b from 0, modulo 65521, b * 65536 + a, which fits 32 bits);
\* the packets of every cut of the bytes into three, empty packets
\* included, hash to the same sums, also from sums about to wrap.
C31_Adler32OfConcatenation ==
    hash_pc = "done" =>
       \A k \in {1, 2} :
          LET bytes == written[k]
              ref == Adler32From([a |-> 1, b |-> 0], bytes)
          IN  /\ sums[k] = ref.b * 65536 + ref.a
              /\ FitsU32(sums[k])
              /\ \A i \in 0..Len(bytes) : \A j \in i..Len(bytes) :
                    /\ AdlerFinish(HashPackets(AdlerNew, CutAt(bytes, i, j))) = sums[k]
                    /\ \A st \in NearWrap :
                          /\ HashPackets(st, CutAt(bytes, i, j)) = Adler32From(st, bytes)
                          /\ HashPackets(st, CutAt(bytes, i, j)).a \in 0..65520
                          /\ HashPackets(st, CutAt(bytes, i, j)).b \in 0..65520

\* C31 witness: the bytes 1, 2 have the checksum 6 * 65536 + 4, as have the
\* packets 1, none, 2.
C31_Witness ==
    /\ hash_pc = "done" /\ written[1] = <<1, 2>>
    /\ sums[1] = 393220
    /\ AdlerFinish(HashPackets(AdlerNew, CutAt(written[1], 1, 1))) = 393220

\* ------------------------------------------------------ claims C32 to C35
\* An audio file index_song can decode and whose loudness it can compute: a
\* default track, two channels, a sample rate the algorithm knows, a codec.
DecodableStereo(audio) ==
    /\ audio.default_track /\ audio.channels = Some(2)
    /\ IsSome(audio.sample_rate) /\ RateSupported(Unwrap(audio.sample_rate))
    /\ audio.codec /\ audio.stream_end = "eof"
\* The files under the root of source s, and the checksum of a file's audio.
UnderRoot(e, s) == EntryInfo(e).root = SourcePath(s)
ChecksumOf(f) == AdlerFinish(HashPackets(AdlerNew, Audio(f.audio).packets))

\* C32 (as stated): when a run without force ends well, every decodable
\* stereo file that is under the source's root has a row in the library
\* whose checksum is the checksum of the file's audio.
C32_EveryFileCatalogued ==
    [][(pc = "ts" /\ pc' = "ok" /\ ~force) =>
          \A e \in AudioEntries :
             (UnderRoot(e, source) /\ files'[e].exists /\ DecodableStereo(Audio(files'[e].audio)))
             => \E r \in library' : r.hash = ChecksumOf(files'[e])
      ]_vars

\* The run has a record for e, made before e's audio became what it is now:
\* the file was modified after the run processed it.
ModifiedSinceProcessed(e) ==
    /\ RecordOf(results, e) /\ files[e].exists
    /\ Unwrap(results[e].val).hash # ChecksumOf(files[e])

\* C33 (as stated): when a run writes its timestamp and a file's audio was
\* modified after the run processed the file, the next run without force on
\* that source, reading the timestamp just written, does not skip the file.
C33_ModifiedDuringRunIsSeenNext ==
    [][(pc = "ts" /\ pc' = "ok") =>
          \A e \in AudioEntries :
             ModifiedSinceProcessed(e)
             => IndexSong(e, files'[e], source, FALSE, ParseI64(LastIndexed(sources', source))) # OkNone
      ]_vars

\* C34 (as stated): no step of a run changes a row of another source or the
\* last-indexed timestamp of another source.
C34_OtherSourcesUntouched ==
    [][/\ \A s \in SourceIds \ {source} : sources'[s] = sources[s]
       /\ \A r \in library : r.source_id # source => r \in library'
      ]_vars

\* C34 (amended): no step of a run changes the last-indexed timestamp of
\* another source, nor the id, path, filename, source id and checksum of a
\* row of another source; the other columns of such a row change only in
\* the insert, when a record of the run has the row's checksum, and are
\* then those of such a record.
C34_OtherSourcesKeepLocation ==
    [][/\ \A s \in SourceIds \ {source} : sources'[s] = sources[s]
       /\ \A r \in library :
             r.source_id # source =>
                \E x \in library' :
                   /\ x.id = r.id /\ Kept(x) = Kept(r)
                   /\ Updated(x) # Updated(r) =>
                         /\ pc = "insert"
                         /\ \E i \in DOMAIN songs :
                               /\ songs[i].hash = r.hash
                               /\ Updated(x) = Updated(songs[i])
                               /\ songs[i].source_id = source
      ]_vars

\* C34 witness: source 2's file was indexed; a file of source 1 now has the
\* same audio and other tags; the run on source 1 has left the row with
\* source 2's path and source id and with the tags of source 1's file.
C34_Witness ==
    /\ pc = "ok" /\ source = 1 /\ Inserted
    /\ \E r \in library : \E old \in pre_library :
          /\ r.source_id = 2 /\ r.id = old.id /\ Kept(r) = Kept(old)
          /\ r.path = "/m2" /\ old.artist = Some("y") /\ r.artist = Some("x")
    /\ sources[2] = pre_sources[2]

\* The places of the insert's records that have checksum h.
WithHash(h) == {i \in DOMAIN songs : songs[i].hash = h}
FirstWith(h) == CHOOSE i \in WithHash(h) : \A j \in WithHash(h) : i <= j

\* C35 (as stated): every row the insert writes (a new row, or a row it
\* changes) has the location and the metadata of one file of the run: some
\* record of the run has the row's path, filename and source id and the
\* row's metadata, duration and loudness columns.
C35_LocationAndMetadataOfOneFile ==
    [][(pc = "insert" /\ pc' = "ts") =>
          \A x \in library' \ library : \E i \in DOMAIN songs : Cols(songs[i]) = Cols(x)
      ]_vars

\* C35 (amended): every row the insert writes has the metadata, duration
\* and loudness columns of a record of the run with the row's checksum; its
\* path, filename and source id are those of the row that had the checksum
\* before, or else of the first record of the run with the checksum.  They
\* are of one file when no row had the checksum and one record of the run
\* has it.
C35_LocationOfFirstMetadataOfLater ==
    [][(pc = "insert" /\ pc' = "ts") =>
          \A x \in library' \ library :
             /\ \E i \in WithHash(x.hash) : Updated(x) = Updated(songs[i])
             /\ \A r \in library : r.hash = x.hash => Kept(x) = Kept(r) /\ x.id = r.id
             /\ (\A r \in library : r.hash # x.hash) => Kept(x) = Kept(songs[FirstWith(x.hash)])
             /\ (Cardinality(WithHash(x.hash)) = 1 /\ \A r \in library : r.hash # x.hash)
                   => \E i \in DOMAIN songs : Cols(songs[i]) = Cols(x)
      ]_vars

\* C35 witness: a.flac and b.flac hold the same audio under different tags;
\* after the run the row at a.flac's location carries b.flac's artist, not
\* the one in a.flac's tags.
C35_Witness ==
    /\ pc = "ok" /\ Inserted
    /\ files["a"].exists /\ files["b"].exists /\ files["a"].audio = files["b"].audio
    /\ \E r \in library :
          /\ r.path = EntryInfo("a").path /\ r.filename = EntryInfo("a").filename
          /\ r.hash = ChecksumOf(files["a"])
          /\ r.artist = Tags(files["b"].tags).artist
          /\ r.artist # Tags(files["a"].tags).artist

\* ---------------------------------------------------- claims C36 to C38
\* The audio files under the root of the call's source, and whether the
\* library held, when the call began, a row of the source with e's filename.
FetchCandidates == {e \in AudioEntries : UnderRoot(e, source) /\ files[e].exists}
KnownName(e) ==
    \E r \in pre_library : r.source_id = source /\ r.filename = EntryInfo(e).filename

\* C36: in mode New a file is read and hashed only if no row of the source
\* had its filename when the call began, whatever the row's directory and
\* checksum are, and a call that ends well has read exactly the audio files
\* of no such name, each once; in the modes Initial and Purge it has read
\* every audio file under the root, each once.
C36_NewSkipsKnownFilenames ==
    /\ mode = "New" => \A i \in DOMAIN read : ~KnownName(read[i])
    /\ \A i, j \in DOMAIN read : i # j => read[i] # read[j]
    /\ (fetch_pc = "ok" /\ kind = "Local") =>
          /\ mode = "New" => Range(read) = {e \in FetchCandidates : ~KnownName(e)}
          /\ mode \in {"Initial", "Purge"} => Range(read) = FetchCandidates

\* C36 witness: the library holds a row of source 1 named b.flac, of another
\* directory and another checksum than the file /m1/sub/b.flac, and a row of
\* source 2 named a.flac; a call on source 1 in mode New has ended: it has
\* read a.flac and has not read b.flac.
C36_Witness ==
    /\ fetch_pc = "ok" /\ mode = "New" /\ kind = "Local" /\ source = 1
    /\ \E r \in pre_library :
          /\ r.source_id = 1 /\ r.filename = EntryInfo("b").filename
          /\ r.path # EntryInfo("b").path /\ r.hash # HashFile(Audio(files["b"].audio))
    /\ \E r \in pre_library : r.source_id = 2 /\ r.filename = EntryInfo("a").filename
    /\ read = <<"a">>

\* The rows of the call's source and the others, as the call found them.
OwnRows == {r \in pre_library : r.source_id = source}
OtherRows == {r \in pre_library : r.source_id # source}

\* A step of a call in mode Purge: the first statement deletes the rows of
\* the source and no other row, unless it fails; every later step, the one
\* that returns an error too, keeps every row the library holds, brings
\* back no deleted row, and adds at most the row of the one file it read.
PurgeStep ==
    mode = "Purge" =>
       /\ (fetch_pc = "start" /\ fetch_pc' # "err") => library' = OtherRows
       /\ (fetch_pc = "start" /\ fetch_pc' = "err") => library' = library
       /\ fetch_pc # "start" =>
             /\ library \subseteq library'
             /\ OtherRows \subseteq library'
             /\ \A r \in OwnRows : r \notin library'
             /\ \A x \in library' \ library : x.source_id = source
             /\ kind = "Local" =>
                   /\ Cardinality(library' \ library) <= Len(read') - Len(read)
                   /\ (read' # read /\ fetch_pc' # "err") =>
                         \E x \in library' :
                            x.hash = HashFile(Audio(files[Head(todo)].audio))

\* C37: a call in mode Purge deletes with its first statement every row of
\* its source and no row of another source; no later step undoes it: when
\* the call returns an error after some files, the deleted rows stay
\* deleted and the rows inserted before the failure stay in the library.
C37_PurgeIsNotUndone == [][PurgeStep]_<<vars, callVars>>

\* C37 witness: the library held two rows of source 1; a call on source 1
\* in mode Purge has read one file and failed on the next: the two rows are
\* gone and the row of the file read is there.
C37_Witness ==
    /\ fetch_pc = "err" /\ mode = "Purge" /\ kind = "Local" /\ source = 1
    /\ Cardinality(OwnRows) = 2 /\ OtherRows = {}
    /\ Len(read) = 1 /\ todo # <<>>
    /\ Cardinality(library) = 1
    /\ \A x \in library : x.filename = EntryInfo(read[1]).filename /\ x \notin pre_library

\* A step of a call in the mode New or Initial, as the insert with
\* on_conflict(hash).do_nothing() makes it.
DoNothingStep ==
    mode \in {"New", "Initial"} =>
          /\ library \subseteq library'
          /\ (fetch_pc = "walk" /\ read' # read
              /\ HashFile(Audio(files[Head(todo)].audio)) \in Hashes(library))
                => library' = library /\ fetch_pc' = "walk" /\ todo' = Tail(todo)
          /\ (fetch_pc = "remote" /\ fetch_pc' = "ok")
                => /\ Hashes(library') = Hashes(library) \cup {remote[i].hash : i \in DOMAIN remote}
                   /\ Cardinality(library') = Cardinality(Hashes(library'))

====
